---- MODULE Spec2Model ----
(***************************************************************************)
(* A model of the FinSight retrieval-augmented-generation backend          *)
(* (backend/main.py): the page-aware chunker, document upload, semantic    *)
(* retrieval with query expansion, and the answer-composing endpoints.     *)
(*                                                                         *)
(* Strings are run-length encoded: a string is a sequence of runs          *)
(* <<c, n>>, the character c repeated n >= 1 times, so that texts of       *)
(* production size (1500-character chunks) stay small values.  The         *)
(* character " " stands for any whitespace character.  A list of numbers   *)
(* (an embedding) is encoded the same way, a run <<x, n>> being the number *)
(* x repeated n times.                                                     *)
(***************************************************************************)
EXTENDS Integers, Sequences, FiniteSets, TLC

VARIABLES
    pc,              \* position of the operation being modelled
    text,            \* chunk_text: its text argument
    chunk_size,      \* chunk_text: its chunk_size argument
    overlap,         \* chunk_text: its overlap argument
    chunks,          \* chunk_text: the list it returned
    pdf,             \* create_document: the uploaded file, as the text of each page
    cd,              \* create_document: its local variables
    documents,       \* the documents table
    document_chunks, \* the document_chunks table, rows in insertion order
    response,        \* what the endpoint returned
    call,            \* the last retrieval or answer-composing call: inputs and outcome
    filing_watchlist,  \* the filing_watchlist table
    filing_candidates, \* the filing_candidates table, rows in insertion order
    filing_ingestions, \* the filing_ingestions table, rows in insertion order
    scout,           \* FilingScout: the fields of the instance and the scan's position
    ing              \* ingest_filing_candidate: the local variables of each call

vars == <<pc, text, chunk_size, overlap, chunks, pdf, cd, documents,
          document_chunks, response, call, filing_watchlist, filing_candidates,
          filing_ingestions, scout, ing>>

chunkVars == <<text, chunk_size, overlap, chunks>>
uploadVars == <<pdf, cd>>
storeVars == <<documents, document_chunks>>
agentVars == <<filing_watchlist, filing_candidates, filing_ingestions, scout, ing>>

None == "None"

\* the filing agents are not running and their tables are empty
AgentsIdle ==
    /\ filing_watchlist = <<>>
    /\ filing_candidates = <<>>
    /\ filing_ingestions = <<>>
    /\ scout = None
    /\ ing = None

Min(a, b) == IF a <= b THEN a ELSE b

\* a nullable value of the store or of a call: null, or a list (of numbers,
\* of characters)
Null == [kind |-> "null", vec |-> <<>>]
List(v) == [kind |-> "list", vec |-> v]

(***************************************************************************)
(* Bounds of the model.                                                    *)
(***************************************************************************)
MaxWords == 5
MaxPages == 2
MaxChunks == 3
MaxTopK == 2
\* embedding calls and single-record writes that fail during one upload
MaxFaults == 2

(***************************************************************************)
(* Strings.                                                                *)
(***************************************************************************)
SP == <<" ", 1>>

RECURSIVE StrLen(_)
\* len(s)
StrLen(s) == IF s = <<>> THEN 0 ELSE s[1][2] + StrLen(Tail(s))

RECURSIVE SplitFrom(_, _, _, _)
SplitFrom(s, i, cur, acc) ==
    IF i > Len(s)
    THEN IF cur = <<>> THEN acc ELSE Append(acc, cur)
    ELSE IF s[i][1] = " "
         THEN SplitFrom(s, i + 1, <<>>, IF cur = <<>> THEN acc ELSE Append(acc, cur))
         ELSE SplitFrom(s, i + 1, Append(cur, s[i]), acc)

\* s.split(): the maximal runs of non-whitespace characters, in order
Split(s) == SplitFrom(s, 1, <<>>, <<>>)

RECURSIVE Join(_)
\* " ".join(words)
Join(words) ==
    IF words = <<>> THEN <<>>
    ELSE IF Len(words) = 1 THEN words[1]
    ELSE words[1] \o <<SP>> \o Join(Tail(words))

RECURSIVE SumLen1(_)
\* sum(len(w) + 1 for w in words)
SumLen1(words) ==
    IF words = <<>> THEN 0 ELSE StrLen(words[1]) + 1 + SumLen1(Tail(words))

(***************************************************************************)
(* chunk_text                                                              *)
(***************************************************************************)
MkChunk(current_chunk) ==
    [content |-> Join(current_chunk),
     token_count |-> StrLen(Join(current_chunk)) \div 4]

RECURSIVE OverlapLoop(_, _, _, _, _)
OverlapLoop(current_chunk, j, overlap_words, overlap_length, overlap_chars) ==
    IF j < 1 THEN overlap_words
    ELSE IF overlap_length + StrLen(current_chunk[j]) + 1 <= overlap_chars
         THEN OverlapLoop(current_chunk, j - 1, <<current_chunk[j]>> \o overlap_words,
                          overlap_length + StrLen(current_chunk[j]) + 1, overlap_chars)
         ELSE overlap_words

RECURSIVE OverlapSkipLoop(_, _, _, _, _)
OverlapSkipLoop(current_chunk, j, overlap_words, overlap_length, overlap_chars) ==
    IF j < 1 THEN overlap_words
    ELSE IF overlap_length + StrLen(current_chunk[j]) + 1 <= overlap_chars
         THEN OverlapSkipLoop(current_chunk, j - 1, <<current_chunk[j]>> \o overlap_words,
                              overlap_length + StrLen(current_chunk[j]) + 1, overlap_chars)
         ELSE OverlapSkipLoop(current_chunk, j - 1, overlap_words, overlap_length,
                              overlap_chars)

\* a loop that skips a word that does not fit instead of stopping at it
OverlapWordsNoBreak(current_chunk, overlap_chars) ==
    OverlapSkipLoop(current_chunk, Len(current_chunk), <<>>, 0, overlap_chars)

\* the words kept from the chunk just closed: for w in reversed(current_chunk)
OverlapWords(current_chunk, overlap_chars) ==
    OverlapLoop(current_chunk, Len(current_chunk), <<>>, 0, overlap_chars)

RECURSIVE ChunkLoop(_, _, _, _, _, _, _)
\* for word in words, with the final flush after the loop
ChunkLoop(words, i, acc, current_chunk, current_length, csize, ovl) ==
    IF i > Len(words)
    THEN IF current_chunk # <<>> THEN Append(acc, MkChunk(current_chunk)) ELSE acc
    ELSE LET word == words[i]
             word_length == StrLen(word) + 1
         IN  IF current_length + word_length > csize /\ current_chunk # <<>>
             THEN LET next_chunk == Append(OverlapWords(current_chunk, ovl), word)
                  IN  ChunkLoop(words, i + 1, Append(acc, MkChunk(current_chunk)),
                                next_chunk, SumLen1(next_chunk), csize, ovl)
             ELSE ChunkLoop(words, i + 1, acc, Append(current_chunk, word),
                            current_length + word_length, csize, ovl)

chunk_text(t, csize, ovl) ==
    IF t = <<>> THEN <<>>
    ELSE ChunkLoop(Split(t), 1, <<>>, <<>>, 0, csize, ovl)

(***************************************************************************)
(* Inputs of the chunk_text specification: texts of up to MaxWords words,  *)
(* each word a run of one letter, separated by one or two whitespace       *)
(* characters, with or without surrounding whitespace.                     *)
(***************************************************************************)
SeqsUpTo(S, n) == UNION {[1..k -> S] : k \in 0..n}

SmallWords == {<<"a", 1>>, <<"b", 2>>, <<"c", 4>>, <<"d", 7>>}

RECURSIVE Spaced(_, _)
Spaced(ws, gap) ==
    IF ws = <<>> THEN <<>>
    ELSE IF Len(ws) = 1 THEN <<ws[1]>>
    ELSE <<ws[1], <<" ", gap>>>> \o Spaced(Tail(ws), gap)

MkText(ws, gap, pad) ==
    IF pad = 0 THEN Spaced(ws, gap) ELSE <<SP>> \o Spaced(ws, gap) \o <<SP>>

SmallTexts == {MkText(ws, gap, pad) : ws \in SeqsUpTo(SmallWords, MaxWords),
                                      gap \in {1, 2}, pad \in {0, 1}}

ChunkParams == {p \in {3, 6, 10} \X {1, 3, 5} : p[2] < p[1]}

InitChunk ==
    /\ pc = "input"
    /\ text \in SmallTexts
    /\ \E p \in ChunkParams : chunk_size = p[1] /\ overlap = p[2]
    /\ chunks = <<>>
    /\ pdf = <<>>
    /\ cd = None
    /\ documents = {}
    /\ document_chunks = <<>>
    /\ response = None
    /\ call = None
    /\ AgentsIdle

ChunkText ==
    /\ pc = "input"
    /\ chunks' = chunk_text(text, chunk_size, overlap)
    /\ pc' = "chunked"
    /\ UNCHANGED <<text, chunk_size, overlap, uploadVars, storeVars, response, call,
                   agentVars>>

NextChunk == ChunkText

SpecChunk == InitChunk /\ [][NextChunk]_vars

(***************************************************************************)
(* chunk_text_by_pages                                                     *)
(***************************************************************************)
PAGE_CHUNK_SIZE == 1500
PAGE_OVERLAP == 200
MIN_CHUNK_CHARS == 50

RECURSIVE StripLeft(_)
StripLeft(s) == IF s # <<>> /\ s[1][1] = " " THEN StripLeft(Tail(s)) ELSE s

RECURSIVE StripRight(_)
StripRight(s) ==
    IF s # <<>> /\ s[Len(s)][1] = " " THEN StripRight(SubSeq(s, 1, Len(s) - 1)) ELSE s

\* s.strip()
Strip(s) == StripRight(StripLeft(s))

\* the chunks of one page that are kept, tagged with the page number
PageChunks(page_text, page_num) ==
    LET page_chunks == chunk_text(page_text, PAGE_CHUNK_SIZE, PAGE_OVERLAP)
        Meaningful(c) == StrLen(c.content) >= MIN_CHUNK_CHARS
        kept == SelectSeq(page_chunks, Meaningful)
    IN  [k \in 1..Len(kept) |->
            [content |-> kept[k].content,
             page_number |-> page_num,
             token_count |-> kept[k].token_count]]

RECURSIVE PagesLoop(_, _, _)
\* for page_num, page_text in enumerate(pages, start=1)
PagesLoop(pages, page_num, acc) ==
    IF page_num > Len(pages) THEN acc
    ELSE IF Strip(pages[page_num]) = <<>>
         THEN PagesLoop(pages, page_num + 1, acc)
         ELSE PagesLoop(pages, page_num + 1, acc \o PageChunks(pages[page_num], page_num))

chunk_text_by_pages(pages) == PagesLoop(pages, 1, <<>>)

\* chunk_text_by_pages applied to one page: up to three words of 1, 24, 25,
\* 49, 700, 1400 or 1450 characters, separated by one or two whitespace
\* characters, with or without surrounding whitespace
PageWords ==
    {<<"a", 1>>, <<"b", 24>>, <<"c", 25>>, <<"d", 49>>, <<"e", 700>>, <<"f", 1400>>,
     <<"g", 1450>>}

PageInputs == {MkText(ws, gap, pad) : ws \in SeqsUpTo(PageWords, 3),
                                      gap \in {1, 2}, pad \in {0, 1}}

InitPages ==
    /\ pc = "page"
    /\ text \in PageInputs
    /\ chunk_size = PAGE_CHUNK_SIZE
    /\ overlap = PAGE_OVERLAP
    /\ chunks = <<>>
    /\ pdf = <<>>
    /\ cd = None
    /\ documents = {}
    /\ document_chunks = <<>>
    /\ response = None
    /\ call = None
    /\ AgentsIdle

ChunkPage ==
    /\ pc = "page"
    /\ chunks' = chunk_text_by_pages(<<text>>)
    /\ pc' = "paged"
    /\ UNCHANGED <<text, chunk_size, overlap, uploadVars, storeVars, response, call,
                   agentVars>>

NextPages == ChunkPage

SpecPages == InitPages /\ [][NextPages]_vars

(***************************************************************************)
(* create_document (POST /documents).  The handler is modelled in steps:   *)
(* parsing and the documents insert, one step per chunk of the embedding   *)
(* loop, one step per batch of the insert loop, and the response.          *)
(***************************************************************************)
EMBED_DIM == 1536
BATCH_SIZE == 20

DocId == "doc-1"

\* an embedding of the expected dimension, and one of another dimension
OkEmbedding == List(<< <<1, EMBED_DIM>> >>)
ShortEmbedding == List(<< <<1, EMBED_DIM - 1>> >>)

\* what generate_embedding may return for a chunk: None on any failure
\* (client missing, the call raising), else the vector the API gave
EmbeddingResults == {Null, OkEmbedding, ShortEmbedding, List(<<>>)}

RECURSIVE ExtractLoop(_, _, _, _)
\* for page in reader.pages, stopped by an exception after n pages were read
ExtractLoop(file, k, n, pages) ==
    IF k > n THEN pages
    ELSE IF Strip(file[k]) # <<>>
         THEN ExtractLoop(file, k + 1, n, Append(pages, Strip(file[k])))
         ELSE ExtractLoop(file, k + 1, n, pages)

\* the pages list after parsing: raise_after = -1 when parsing does not raise,
\* else the number of pages read before the exception
ParsedPages(file, raise_after) ==
    ExtractLoop(file, 1, IF raise_after = -1 THEN Len(file) ELSE raise_after, <<>>)

\* text_content, kept as the list of page texts it is joined from, or null
TextContentOf(file, raise_after) ==
    IF raise_after = -1
    THEN [kind |-> "text", pages |-> ParsedPages(file, raise_after)]
    ELSE Null

Http500 == [status |-> 500]

AfterEmbedLoop(chunk_records) == IF chunk_records # <<>> THEN "insert" ELSE "respond"

\* the uploaded files: up to MaxPages pages, each one of these page texts
PageTexts ==
    { <<>>,                                                  \* no extractable text
      <<SP>>,                                                \* whitespace only
      <<SP, <<"a", 30>>, SP>>,                               \* under 50 characters
      << <<"b", 60>> >>,                                     \* one chunk
      << <<"c", 700>>, SP, <<"b", 60>>, SP, <<"d", 1400>> >>,\* two chunks, overlapping
      << <<"e", 1600>> >> }                                  \* one word over chunk_size

\* a page of n words of 1400 characters: n chunks
LongPage(n) ==
    [k \in 1..(2 * n - 1) |-> IF k % 2 = 1 THEN <<"w", 1400>> ELSE SP]

\* the short files, and a file whose chunks need two batches
Files == SeqsUpTo(PageTexts, MaxPages) \cup { <<LongPage(BATCH_SIZE + 1)>> }

\* a chunk record, built for a chunk whose embedding passed the checks
ChunkRecord(idx, chunk, embedding) ==
    [document_id |-> DocId,
     chunk_index |-> idx,
     content |-> chunk.content,
     page_number |-> chunk.page_number,
     embedding |-> embedding,
     token_count |-> chunk.token_count]

\* the loop body were a failed embedding to end the loop
EmbedStepAbort(c, embedding) ==
    LET stored == /\ embedding.kind = "list"
                  /\ embedding.vec # <<>>
                  /\ StrLen(embedding.vec) = EMBED_DIM
    IN  [c EXCEPT !.idx = IF stored THEN @ + 1 ELSE Len(c.chunks),
                  !.embed_calls = Append(@, [idx |-> c.idx, returned |-> embedding.kind]),
                  !.chunk_records =
                      IF stored
                      THEN Append(@, ChunkRecord(c.idx, c.chunks[c.idx + 1], embedding))
                      ELSE @,
                  !.failed_embeddings = IF stored THEN @ ELSE @ + 1]

\* the body of the embedding loop for chunk c.idx, generate_embedding having
\* returned embedding
EmbedStep(c, embedding) ==
    LET chunk == c.chunks[c.idx + 1]
        stored == /\ embedding.kind = "list"
                  /\ embedding.vec # <<>>
                  /\ StrLen(embedding.vec) = EMBED_DIM
    IN  [c EXCEPT !.idx = @ + 1,
                  !.embed_calls = Append(@, [idx |-> c.idx, returned |-> embedding.kind]),
                  !.chunk_records =
                      IF stored THEN Append(@, ChunkRecord(c.idx, chunk, embedding))
                      ELSE @,
                  !.failed_embeddings = IF stored THEN @ ELSE @ + 1]

\* the sets of at most k of the positions 1..n
RECURSIVE UpTo(_, _)
UpTo(n, k) ==
    IF k <= 0 THEN {{}}
    ELSE LET smaller == UpTo(n, k - 1)
         IN  smaller \cup {S \cup {a} : S \in smaller, a \in 1..n}

\* the records of a sequence at the positions outside bad
Except(records, bad) ==
    LET Kept(k) == k \notin bad
        kept == SelectSeq([k \in 1..Len(records) |-> k], Kept)
    IN  [j \in 1..Len(kept) |-> records[kept[j]]]

\* the rows written were a failed batch write to keep its first record
WrittenTwice(batch, batch_ok, bad) ==
    IF batch_ok THEN batch ELSE SubSeq(batch, 1, 1) \o batch

\* the rows written by one iteration of the insert loop: the batch, or when
\* the batch write raised, the records whose single write did not raise
Written(batch, batch_ok, bad) ==
    IF batch_ok THEN batch ELSE Except(batch, bad)

\* the insert calls of one iteration: the batch write, then on failure one
\* write per record
InsertCalls(batch, batch_ok, bad) ==
    <<[size |-> Len(batch), ok |-> batch_ok]>> \o
    (IF batch_ok THEN <<>>
     ELSE [k \in 1..Len(batch) |-> [size |-> 1, ok |-> k \notin bad]])

\* failed single writes so far
FailedWrites(c) == Min(c.i, Len(c.chunk_records)) - c.inserted_count

CreateDocumentParse ==
    /\ pc = "start"
    /\ \E file \in Files, supabase_ok \in BOOLEAN, openai_ok \in BOOLEAN,
          insert_result \in {"ok", "raise", "nodata"} :
       \E raise_after \in {-1} \cup (0..Len(file)) :
          /\ pdf' = file
          /\ IF ~supabase_ok
             THEN /\ response' = Http500
                  /\ pc' = "done"
                  /\ UNCHANGED <<cd, storeVars>>
             ELSE LET pages == ParsedPages(file, raise_after)
                      text_content == TextContentOf(file, raise_after)
                      chunked == pages # <<>> /\ openai_ok
                      cks == IF chunked THEN chunk_text_by_pages(pages) ELSE <<>>
                  IN  IF insert_result # "ok"
                      THEN /\ response' = Http500
                           /\ pc' = "done"
                           /\ UNCHANGED <<cd, storeVars>>
                      ELSE /\ documents' = documents \cup
                                  {[id |-> DocId, text_content |-> text_content]}
                           /\ cd' = [pages |-> pages, chunks |-> cks, idx |-> 0,
                                     embed_calls |-> <<>>,
                                     chunk_records |-> <<>>, failed_embeddings |-> 0,
                                     i |-> 0, inserted_count |-> 0,
                                     insert_calls |-> <<>>, unwritable |-> {}]
                           /\ pc' = IF cks = <<>> THEN "respond" ELSE "embed"
                           /\ UNCHANGED <<document_chunks, response>>
    /\ UNCHANGED <<chunkVars, call, agentVars>>

\* one iteration of: for idx, chunk in enumerate(chunks)
EmbedChunk ==
    /\ pc = "embed"
    /\ \E embedding \in EmbeddingResults :
          /\ embedding = OkEmbedding \/ cd.failed_embeddings < MaxFaults
          /\ cd' = EmbedStep(cd, embedding)
          /\ pc' = IF cd'.idx < Len(cd.chunks) THEN "embed"
                   ELSE AfterEmbedLoop(cd'.chunk_records)
    /\ UNCHANGED <<chunkVars, pdf, storeVars, response, call, agentVars>>

\* one iteration of: for i in range(0, len(chunk_records), batch_size); a failed
\* batch write stores none of its records and each is then written alone
InsertBatch ==
    /\ pc = "insert"
    /\ LET batch == SubSeq(cd.chunk_records, cd.i + 1,
                           Min(cd.i + BATCH_SIZE, Len(cd.chunk_records)))
           budget == MaxFaults - cd.failed_embeddings - FailedWrites(cd)
       IN  \E batch_ok \in BOOLEAN, bad \in UpTo(Len(batch), budget) :
              /\ batch_ok => bad = {}
              /\ document_chunks' = document_chunks \o Written(batch, batch_ok, bad)
              /\ cd' = [cd EXCEPT !.i = @ + BATCH_SIZE,
                                  !.inserted_count =
                                      @ + Len(Written(batch, batch_ok, bad)),
                                  !.insert_calls =
                                      @ \o InsertCalls(batch, batch_ok, bad),
                                  !.unwritable =
                                      @ \cup {batch[k].chunk_index : k \in bad}]
              /\ pc' = IF cd.i + BATCH_SIZE < Len(cd.chunk_records)
                       THEN "insert" ELSE "respond"
    /\ UNCHANGED <<chunkVars, pdf, documents, response, call, agentVars>>

\* the response were lost chunks reported as an error
ErrorOnLostChunks(c) ==
    IF c.failed_embeddings > 0 \/ FailedWrites(c) > 0 THEN Http500
    ELSE [status |-> 200, id |-> DocId]

\* the response after the chunking block, whatever happened in it
DocumentResponse(c) == [status |-> 200, id |-> DocId]

\* return Document(...)
CreateDocumentRespond ==
    /\ pc = "respond"
    /\ response' = DocumentResponse(cd)
    /\ pc' = "done"
    /\ UNCHANGED <<chunkVars, uploadVars, storeVars, call, agentVars>>

InitUpload ==
    /\ pc = "start"
    /\ text = <<>>
    /\ chunk_size = PAGE_CHUNK_SIZE
    /\ overlap = PAGE_OVERLAP
    /\ chunks = <<>>
    /\ pdf = <<>>
    /\ cd = None
    /\ documents = {}
    /\ document_chunks = <<>>
    /\ response = None
    /\ call = None
    /\ AgentsIdle

NextUpload ==
    \/ CreateDocumentParse
    \/ EmbedChunk
    \/ InsertBatch
    \/ CreateDocumentRespond

SpecUpload == InitUpload /\ [][NextUpload]_vars

(***************************************************************************)
(* retrieve_relevant_chunks.  Query texts are strings whose runs all have  *)
(* length 1, so that a run is a character.                                 *)
(***************************************************************************)
Str(chars) == [k \in DOMAIN chars |-> <<chars[k], 1>>]

UpperCase == <<"A", "B", "C", "D", "E", "F", "G", "H", "I", "J", "K", "L", "M", "N", "O", "P", "Q", "R", "S", "T", "U", "V", "W", "X", "Y", "Z">>
LowerCase == <<"a", "b", "c", "d", "e", "f", "g", "h", "i", "j", "k", "l", "m", "n", "o", "p", "q", "r", "s", "t", "u", "v", "w", "x", "y", "z">>

LowerChar(c) ==
    IF \E k \in DOMAIN UpperCase : UpperCase[k] = c
    THEN LowerCase[CHOOSE k \in DOMAIN UpperCase : UpperCase[k] = c]
    ELSE c

\* s.lower()
Lower(s) == [k \in DOMAIN s |-> <<LowerChar(s[k][1]), s[k][2]>>]

\* needle in hay
Contains(hay, needle) ==
    \E k \in 0..(Len(hay) - Len(needle)) : SubSeq(hay, k + 1, k + Len(needle)) = needle

\* query_expansions, in the order the dict literal lists its keys
query_expansions == <<
    [term |-> Str(<<"c", "o", "g", "s">>),
     synonyms |-> <<
        Str(<<"c", "o", "s", "t", " ", "o", "f", " ", "g", "o", "o", "d",
              "s", " ", "s", "o", "l", "d">>),
        Str(<<"c", "o", "s", "t", " ", "o", "f", " ", "s", "a", "l", "e",
              "s">>),
        Str(<<"C", "O", "G", "S">>),
        Str(<<"c", "o", "s", "t", " ", "o", "f", " ", "g", "o", "o", "d",
              "s">>) >>],
    [term |-> Str(<<"r", "e", "v", "e", "n", "u", "e">>),
     synonyms |-> <<
        Str(<<"n", "e", "t", " ", "s", "a", "l", "e", "s">>),
        Str(<<"s", "a", "l", "e", "s">>),
        Str(<<"r", "e", "v", "e", "n", "u", "e">>),
        Str(<<"t", "o", "t", "a", "l", " ", "r", "e", "v", "e", "n", "u",
              "e">>) >>],
    [term |-> Str(<<"p", "r", "o", "f", "i", "t">>),
     synonyms |-> <<
        Str(<<"n", "e", "t", " ", "i", "n", "c", "o", "m", "e">>),
        Str(<<"e", "a", "r", "n", "i", "n", "g", "s">>),
        Str(<<"p", "r", "o", "f", "i", "t">>),
        Str(<<"n", "e", "t", " ", "p", "r", "o", "f", "i", "t">>) >>],
    [term |-> Str(<<"e", "x", "p", "e", "n", "s", "e", "s">>),
     synonyms |-> <<
        Str(<<"o", "p", "e", "r", "a", "t", "i", "n", "g", " ", "e", "x",
              "p", "e", "n", "s", "e", "s">>),
        Str(<<"e", "x", "p", "e", "n", "s", "e", "s">>),
        Str(<<"c", "o", "s", "t", "s">>) >>] >>

RECURSIVE ExpansionLoop(_, _, _)
\* for term, synonyms in query_expansions.items(): ... break
ExpansionLoop(query, expanded_query, k) ==
    IF k > Len(query_expansions) THEN expanded_query
    ELSE IF Contains(expanded_query, query_expansions[k].term)
         THEN query \o <<SP>> \o Join(query_expansions[k].synonyms)
         ELSE ExpansionLoop(query, expanded_query, k + 1)

RECURSIVE ExpansionLoopNoBreak(_, _, _)
ExpansionLoopNoBreak(query, expanded_query, k) ==
    IF k > Len(query_expansions) THEN expanded_query
    ELSE IF Contains(expanded_query, query_expansions[k].term)
         THEN ExpansionLoopNoBreak(query,
                  query \o <<SP>> \o Join(query_expansions[k].synonyms), k + 1)
         ELSE ExpansionLoopNoBreak(query, expanded_query, k + 1)

\* the loop without its break: a later matching key overwrites the expansion
ExpandQueryNoBreak(query) == ExpansionLoopNoBreak(query, Lower(query), 1)

\* expanded_query: the text handed to generate_embedding
ExpandQuery(query) == ExpansionLoop(query, Lower(query), 1)

\* a stored embedding that comes back as text: parsed is what json.loads
\* makes of it, or Unparseable when json.loads raises
Unparseable == [kind |-> "unparseable"]
Text(parsed) == [kind |-> "str", parsed |-> parsed]

\* generate_embedding: None without a client or when the API call raises (a
\* time-out included), else the vector of the response
generate_embedding(openai_ok, api_result) ==
    IF ~openai_ok THEN Null
    ELSE IF api_result.kind = "raise" THEN Null
    ELSE api_result

RECURSIVE Gcd(_, _)
Gcd(a, b) == IF b = 0 THEN a ELSE Gcd(b, a % b)

\* a list without its first m entries, m at most the length of its first run
Drop(u, m) ==
    IF u[1][2] = m THEN Tail(u) ELSE << <<u[1][1], u[1][2] - m>> >> \o Tail(u)

RECURSIVE Dot(_, _)
\* sum(a * b for a, b in zip(u, v))
Dot(u, v) ==
    IF u = <<>> \/ v = <<>> THEN 0
    ELSE LET m == Min(u[1][2], v[1][2])
         IN  m * u[1][1] * v[1][1] + Dot(Drop(u, m), Drop(v, m))

\* The similarity dot / (norm_a * norm_b), or 0 when a norm is 0, as the exact
\* real number sgn * sqrt(num / den) with num / den in lowest terms.
Cosine(embedding, query_embedding) ==
    LET dot_product == Dot(embedding, query_embedding)
        sq == Dot(embedding, embedding) * Dot(query_embedding, query_embedding)
    IN  IF sq > 0 /\ dot_product # 0
        THEN LET g == Gcd(dot_product * dot_product, sq)
             IN  [sgn |-> IF dot_product > 0 THEN 1 ELSE -1,
                  num |-> (dot_product * dot_product) \div g,
                  den |-> sq \div g]
        ELSE [sgn |-> 0, num |-> 0, den |-> 1]

\* x < y for two similarities
SimLess(x, y) ==
    IF x.sgn # y.sgn THEN x.sgn < y.sgn
    ELSE IF x.sgn = 1 THEN x.num * y.den < y.num * x.den
    ELSE IF x.sgn = -1 THEN x.num * y.den > y.num * x.den
    ELSE FALSE

\* the vector a stored embedding is scored as, or Null when the loop skips it:
\* null, text that does not parse, anything that is not a list
ScorableVector(embedding) ==
    IF embedding.kind = "null" THEN Null
    ELSE LET parsed == IF embedding.kind = "str" THEN embedding.parsed ELSE embedding
         IN  IF parsed.kind = "list" THEN parsed ELSE Null

RECURSIVE ScoreLoop(_, _, _, _)
\* for chunk in result.data
ScoreLoop(data, query_embedding, k, chunks_with_similarity) ==
    IF k > Len(data) THEN chunks_with_similarity
    ELSE LET chunk == data[k]
             embedding == ScorableVector(chunk.embedding)
         IN  IF embedding.kind = "list" /\ StrLen(embedding.vec) = StrLen(query_embedding)
             THEN ScoreLoop(data, query_embedding, k + 1,
                      Append(chunks_with_similarity,
                             [id |-> chunk.id,
                              content |-> chunk.content,
                              page_number |-> chunk.page_number,
                              similarity |-> Cosine(embedding.vec, query_embedding)]))
             ELSE ScoreLoop(data, query_embedding, k + 1, chunks_with_similarity)

RECURSIVE InsertDescending(_, _)
\* x placed after the elements that are not smaller than it
InsertDescending(sorted, x) ==
    IF sorted = <<>> THEN <<x>>
    ELSE IF SimLess(sorted[1].similarity, x.similarity)
         THEN <<x>> \o sorted
         ELSE <<sorted[1]>> \o InsertDescending(Tail(sorted), x)

RECURSIVE SortLoop(_, _, _)
SortLoop(xs, k, sorted) ==
    IF k > Len(xs) THEN sorted ELSE SortLoop(xs, k + 1, InsertDescending(sorted, xs[k]))

\* the list left as the scoring loop built it
NotSorted(xs) == xs

\* xs.sort(key=lambda x: x["similarity"], reverse=True): a stable sort
SortBySimilarity(xs) == SortLoop(xs, 1, <<>>)

\* the list kept whole
NoSlice(xs, top_k) == xs

\* xs[:top_k], for top_k > 0
Slice(xs, top_k) == SubSeq(xs, 1, Min(top_k, Len(xs)))

\* every row scored, a row without a usable vector as similarity 0
ScoreAllRows(data, query_embedding) ==
    [k \in 1..Len(data) |->
        [id |-> data[k].id, content |-> data[k].content,
         page_number |-> data[k].page_number,
         similarity |->
            LET embedding == ScorableVector(data[k].embedding)
            IN  IF embedding.kind = "list" /\ StrLen(embedding.vec) = StrLen(query_embedding)
                THEN Cosine(embedding.vec, query_embedding)
                ELSE [sgn |-> 0, num |-> 0, den |-> 1]]]

\* chunks_with_similarity after the scoring loop
ScoreRows(data, query_embedding) == ScoreLoop(data, query_embedding, 1, <<>>)

\* the body of the try block: the fetch, the scoring loop, the sort, the slice
RankFetched(fetch, query_embedding, top_k) ==
    IF fetch.kind = "raise" THEN [raised |-> TRUE, value |-> <<>>]
    ELSE IF fetch.data = <<>> THEN [raised |-> FALSE, value |-> <<>>]
    ELSE [raised |-> FALSE,
          value |-> Slice(SortBySimilarity(ScoreRows(fetch.data, query_embedding)),
                          top_k)]

\* a try block whose exception reaches the caller
Uncaught(outcome) == outcome

\* try: ... except Exception: return []
ReturnEmptyOnException(outcome) ==
    IF outcome.raised THEN [raised |-> FALSE, value |-> <<>>] ELSE outcome

\* retrieve_relevant_chunks(document_id, query, top_k) in the environment env:
\* whether the two clients are configured, what the embeddings API does, and
\* what the fetch of the document's rows does.
\*   embedded: the text handed to the embedder (Null when it is not called)
\*   raised, value: whether the call raised, else the list it returned
retrieve_relevant_chunks(query, top_k, env) ==
    IF ~env.supabase_ok \/ ~env.openai_ok
    THEN [embedded |-> Null, raised |-> FALSE, value |-> <<>>]
    ELSE LET expanded_query == ExpandQuery(query)
             query_embedding == generate_embedding(env.openai_ok, env.api_result)
         IN  IF query_embedding.kind = "null" \/ query_embedding.vec = <<>>
             THEN [embedded |-> List(expanded_query), raised |-> FALSE, value |-> <<>>]
             ELSE LET outcome == ReturnEmptyOnException(
                                     RankFetched(env.fetch, query_embedding.vec, top_k))
                  IN  [embedded |-> List(expanded_query),
                       raised |-> outcome.raised,
                       value |-> outcome.value]

(***************************************************************************)
(* The retrieval service: the store holds the chunk rows of one document   *)
(* (and one row of another document), written by any ingestion path or     *)
(* directly; retrieve_relevant_chunks is called on it.                     *)
(***************************************************************************)
OtherDocId == "doc-2"

\* vectors of EMBED_DIM entries: (1,..,1,0,..,0), twice that, (1,..,1) and
\* (-1,..,-1,1,..,1)
VecA == << <<1, EMBED_DIM \div 2>>, <<0, EMBED_DIM \div 2>> >>
Vec2A == << <<2, EMBED_DIM \div 2>>, <<0, EMBED_DIM \div 2>> >>
VecB == << <<1, EMBED_DIM>> >>
VecC == << <<-1, EMBED_DIM \div 2>>, <<1, EMBED_DIM \div 2>> >>

\* the embeddings a stored row may hold: null, a vector, a vector of another
\* dimension, the text of a vector, text that is no JSON
StoredEmbeddings ==
    { Null,
      List(VecA), List(Vec2A),
      ShortEmbedding,
      Text(List(VecB)),
      Text(Unparseable) }

\* what the embeddings API may do for the query
ApiResults ==
    { [kind |-> "raise", vec |-> <<>>], List(<<>>), List(VecA), List(VecC) }

\* the queries
Queries ==
    {
      \* "Tax rate": no key
      Str(<<"T", "a", "x", " ", "r", "a", "t", "e">>),
      \* "COGS": the key cogs, in upper case
      Str(<<"C", "O", "G", "S">>),
      \* "profit revenue": two keys, the later one first in the table
      Str(<<"p", "r", "o", "f", "i", "t", " ", "r", "e", "v", "e", "n", "u", "e">>),
      \* "Net Profit": the key profit
      Str(<<"N", "e", "t", " ", "P", "r", "o", "f", "i", "t">>),
      \* "cogs expenses": the first and the last key
      Str(<<"c", "o", "g", "s", " ", "e", "x", "p", "e", "n", "s", "e", "s">>) }

\* the rows of a document, in insertion order
DocumentRows(document_id) ==
    LET Mine(r) == r.document_id = document_id IN SelectSeq(document_chunks, Mine)

Perms(n) == {p \in [1..n -> 1..n] : \A a, b \in 1..n : p[a] = p[b] => a = b}

\* what the select of a document's rows may do: raise, or return the rows in
\* any order (the query states none)
Fetches(document_id) ==
    LET rows == DocumentRows(document_id)
    IN  {[kind |-> "raise", data |-> <<>>]} \cup
        {[kind |-> "rows", data |-> [k \in 1..Len(rows) |-> rows[p[k]]]] :
            p \in Perms(Len(rows))}

\* the rows in insertion order
InOrder(document_id) == [kind |-> "rows", data |-> DocumentRows(document_id)]

\* the environments of a call: a client missing (nothing else is then used),
\* the embedding failing (the rows are then not fetched), or an embedding
\* and any outcome of the fetch
Envs(document_id) ==
    { [supabase_ok |-> FALSE, openai_ok |-> TRUE, api_result |-> List(VecA),
       fetch |-> InOrder(document_id)],
      [supabase_ok |-> TRUE, openai_ok |-> FALSE, api_result |-> List(VecA),
       fetch |-> InOrder(document_id)] } \cup
    { [supabase_ok |-> TRUE, openai_ok |-> TRUE, api_result |-> a,
       fetch |-> InOrder(document_id)] :
        a \in {r \in ApiResults : r.kind = "raise" \/ r.vec = <<>>} } \cup
    { [supabase_ok |-> TRUE, openai_ok |-> TRUE, api_result |-> a, fetch |-> f] :
        a \in {r \in ApiResults : r.kind = "list" /\ r.vec # <<>>},
        f \in Fetches(document_id) }

\* the content of the n-th row written: 60 characters, exactly 300 with a
\* digit, 301, then 60 + n
StoredContent(n) ==
    IF n = 1 THEN << <<"b", 299>>, <<"7", 1>> >>
    ELSE IF n = 2 THEN << <<"b", 301>> >>
    ELSE << <<"b", 60 + n>> >>

\* a chunk row is written for the document
StoreChunk ==
    /\ pc = "serve"
    /\ Len(DocumentRows(DocId)) < MaxChunks
    /\ \E embedding \in StoredEmbeddings :
          LET n == Len(DocumentRows(DocId))
          IN  document_chunks' = Append(document_chunks,
                  [id |-> n + 1,
                   document_id |-> DocId,
                   chunk_index |-> n,
                   content |-> StoredContent(n),
                   page_number |-> n + 1,
                   embedding |-> embedding])
    /\ UNCHANGED <<pc, chunkVars, uploadVars, documents, response, call,
                   agentVars>>

Retrieve ==
    /\ pc = "serve"
    /\ \E query \in Queries, top_k \in 1..MaxTopK, env \in Envs(DocId) :
          call' = [op |-> "retrieve", document_id |-> DocId, query |-> query,
                   top_k |-> top_k, env |-> env,
                   out |-> retrieve_relevant_chunks(query, top_k, env)]
    /\ pc' = "served"
    /\ UNCHANGED <<chunkVars, uploadVars, storeVars, response, agentVars>>

InitRetrieve ==
    /\ pc = "serve"
    /\ text = <<>>
    /\ chunk_size = PAGE_CHUNK_SIZE
    /\ overlap = PAGE_OVERLAP
    /\ chunks = <<>>
    /\ pdf = <<>>
    /\ cd = None
    /\ documents = {}
    /\ document_chunks = << [id |-> 0, document_id |-> OtherDocId, chunk_index |-> 0,
                             content |-> << <<"z", 60>> >>, page_number |-> 1,
                             embedding |-> List(VecB)] >>
    /\ response = None
    /\ call = None
    /\ AgentsIdle

NextRetrieve ==
    \/ StoreChunk
    \/ Retrieve

SpecRetrieve == InitRetrieve /\ [][NextRetrieve]_vars

(***************************************************************************)
(* The answer-composing paths: chat, and one question of the loops of      *)
(* run_evaluation and run_equity_analyst (retrieval, context, system       *)
(* instruction, generation call, citations).  A system instruction is kept *)
(* as the f-string it is built from and the context put into it.           *)
(***************************************************************************)
CHAT_TOP_K == 8
EVAL_TOP_K == 5
ANALYST_TOP_K == 8
EXCERPT_CHARS == 300

RECURSIVE Take(_, _)
\* s[:n]
Take(s, n) ==
    IF n <= 0 \/ s = <<>> THEN <<>>
    ELSE IF s[1][2] <= n THEN <<s[1]>> \o Take(Tail(s), n - s[1][2])
    ELSE << <<s[1][1], n>> >>

\* content[:300] + "..." if len(content) > 300 else content
Excerpt(content) ==
    IF StrLen(content) > EXCERPT_CHARS
    THEN Take(content, EXCERPT_CHARS) \o << <<".", 3>> >>
    ELSE content

\* "Page N" when page_number is truthy, else "Document" (0 stands for a
\* page_number that is null or 0)
PageLabel(page_number) ==
    IF page_number # 0 THEN [text |-> "Page", page |-> page_number]
    ELSE [text |-> "Document", page |-> 0]

Digits == {"0", "1", "2", "3", "4", "5", "6", "7", "8", "9"}

\* any(char.isdigit() for char in chunk_text)
HasDigit(content) == \E k \in 1..Len(content) : content[k][1] \in Digits

\* chat: the citations built from the retrieved chunks
ChatCitations(relevant_chunks) ==
    [k \in 1..Len(relevant_chunks) |->
        [id |-> [text |-> "cite-", n |-> k],
         label |-> PageLabel(relevant_chunks[k].page_number),
         excerpt |-> Excerpt(relevant_chunks[k].content)]]

\* chat: context_parts, the list that is joined into document_context
ChatContext(relevant_chunks) ==
    [k \in 1..Len(relevant_chunks) |->
        [page_info |-> PageLabel(relevant_chunks[k].page_number),
         contains_numbers |-> HasDigit(relevant_chunks[k].content),
         content |-> relevant_chunks[k].content]]

\* run_evaluation and run_equity_analyst: context_parts
PlainContext(relevant_chunks) ==
    [k \in 1..Len(relevant_chunks) |->
        [page_info |-> PageLabel(relevant_chunks[k].page_number),
         contains_numbers |-> FALSE,
         content |-> relevant_chunks[k].content]]

\* run_equity_analyst: citations_list
AnalystCitations(relevant_chunks) ==
    [k \in 1..Len(relevant_chunks) |->
        [id |-> [text |-> "chunk-id", n |-> relevant_chunks[k].id],
         label |-> PageLabel(relevant_chunks[k].page_number),
         excerpt |-> Excerpt(relevant_chunks[k].content)]]

\* chat: system_content, from the grounded f-string or the no-document text
ChatSystemContent(document_context) ==
    IF document_context # <<>>
    THEN [template |-> "chat: relevant sections", document_context |-> document_context]
    ELSE [template |-> "chat: no access to the document content",
          document_context |-> <<>>]

\* run_evaluation: system_content, one f-string
EvalSystemContent(document_context) ==
    [template |-> "run_evaluation: answer based on the document context",
     document_context |-> document_context]

\* run_equity_analyst: system_content, one f-string
AnalystSystemContent(document_context) ==
    [template |-> "run_equity_analyst: relevant sections",
     document_context |-> document_context]

NotSent == [template |-> "", document_context |-> <<>>]

EQUITY_ANALYST_QUESTIONS == <<
    [section_type |-> "revenue_drivers",
     question |->
        Str(<<"W", "h", "a", "t", " ", "a", "r", "e", " ", "t", "h", "e",
              " ", "m", "a", "i", "n", " ", "r", "e", "v", "e", "n", "u",
              "e", " ", "d", "r", "i", "v", "e", "r", "s", " ", "f", "o",
              "r", " ", "t", "h", "i", "s", " ", "c", "o", "m", "p", "a",
              "n", "y", "?", " ", "I", "d", "e", "n", "t", "i", "f", "y",
              " ", "t", "h", "e", " ", "k", "e", "y", " ", "p", "r", "o",
              "d", "u", "c", "t", "s", ",", " ", "s", "e", "r", "v", "i",
              "c", "e", "s", ",", " ", "o", "r", " ", "b", "u", "s", "i",
              "n", "e", "s", "s", " ", "s", "e", "g", "m", "e", "n", "t",
              "s", " ", "t", "h", "a", "t", " ", "g", "e", "n", "e", "r",
              "a", "t", "e", " ", "t", "h", "e", " ", "m", "o", "s", "t",
              " ", "r", "e", "v", "e", "n", "u", "e", ".">>)],
    [section_type |-> "key_risks",
     question |->
        Str(<<"W", "h", "a", "t", " ", "a", "r", "e", " ", "t", "h", "e",
              " ", "k", "e", "y", " ", "r", "i", "s", "k", "s", " ", "m",
              "e", "n", "t", "i", "o", "n", "e", "d", " ", "i", "n", " ",
              "t", "h", "i", "s", " ", "d", "o", "c", "u", "m", "e", "n",
              "t", "?", " ", "I", "n", "c", "l", "u", "d", "e", " ", "b",
              "o", "t", "h", " ", "o", "p", "e", "r", "a", "t", "i", "o",
              "n", "a", "l", " ", "a", "n", "d", " ", "f", "i", "n", "a",
              "n", "c", "i", "a", "l", " ", "r", "i", "s", "k", "s", ".">>)],
    [section_type |-> "unit_economics",
     question |->
        Str(<<"W", "h", "a", "t", " ", "a", "r", "e", " ", "t", "h", "e",
              " ", "u", "n", "i", "t", " ", "e", "c", "o", "n", "o", "m",
              "i", "c", "s", " ", "a", "n", "d", " ", "m", "a", "r", "g",
              "i", "n", "s", "?", " ", "P", "r", "o", "v", "i", "d", "e",
              " ", "s", "p", "e", "c", "i", "f", "i", "c", " ", "n", "u",
              "m", "b", "e", "r", "s", " ", "f", "o", "r", " ", "g", "r",
              "o", "s", "s", " ", "m", "a", "r", "g", "i", "n", ",", " ",
              "o", "p", "e", "r", "a", "t", "i", "n", "g", " ", "m", "a",
              "r", "g", "i", "n", ",", " ", "a", "n", "d", " ", "n", "e",
              "t", " ", "m", "a", "r", "g", "i", "n", " ", "i", "f", " ",
              "a", "v", "a", "i", "l", "a", "b", "l", "e", ".">>)],
    [section_type |-> "investment_thesis",
     question |->
        Str(<<"P", "r", "o", "v", "i", "d", "e", " ", "a", " ", "3", "-",
              "b", "u", "l", "l", "e", "t", " ", "i", "n", "v", "e", "s",
              "t", "m", "e", "n", "t", " ", "t", "h", "e", "s", "i", "s",
              " ", "(", "b", "u", "l", "l", "i", "s", "h", " ", "o", "r",
              " ", "b", "e", "a", "r", "i", "s", "h", ")", " ", "b", "a",
              "s", "e", "d", " ", "o", "n", " ", "t", "h", "e", " ", "i",
              "n", "f", "o", "r", "m", "a", "t", "i", "o", "n", " ", "i",
              "n", " ", "t", "h", "i", "s", " ", "d", "o", "c", "u", "m",
              "e", "n", "t", ".", " ", "B", "e", " ", "c", "o", "n", "c",
              "i", "s", "e", " ", "a", "n", "d", " ", "s", "p", "e", "c",
              "i", "f", "i", "c", ".">>)],
    [section_type |-> "financial_trends",
     question |->
        Str(<<"W", "h", "a", "t", " ", "a", "r", "e", " ", "t", "h", "e",
              " ", "n", "o", "t", "a", "b", "l", "e", " ", "f", "i", "n",
              "a", "n", "c", "i", "a", "l", " ", "t", "r", "e", "n", "d",
              "s", " ", "c", "o", "m", "p", "a", "r", "e", "d", " ", "t",
              "o", " ", "t", "h", "e", " ", "p", "r", "e", "v", "i", "o",
              "u", "s", " ", "y", "e", "a", "r", "?", " ", "H", "i", "g",
              "h", "l", "i", "g", "h", "t", " ", "s", "i", "g", "n", "i",
              "f", "i", "c", "a", "n", "t", " ", "c", "h", "a", "n", "g",
              "e", "s", " ", "i", "n", " ", "r", "e", "v", "e", "n", "u",
              "e", ",", " ", "e", "x", "p", "e", "n", "s", "e", "s", ",",
              " ", "o", "r", " ", "p", "r", "o", "f", "i", "t", "a", "b",
              "i", "l", "i", "t", "y", ".">>)] >>

\* the last message of role user, "" when there is none
RECURSIVE LastUserMessage(_, _)
LastUserMessage(messages, k) ==
    IF k < 1 THEN <<>>
    ELSE IF messages[k].role = "user" THEN messages[k].content
    ELSE LastUserMessage(messages, k - 1)

\* the environments of an answer-composing call: as for a retrieval, the
\* rows fetched in insertion order
ComposeEnvs(document_id) ==
    {e \in Envs(document_id) : e.fetch.kind = "raise" \/ e.fetch = InOrder(document_id)}

\* the message lists of a chat request
ChatMessages ==
    LET user(q) == [role |-> "user", content |-> q]
        assistant == [role |-> "assistant", content |-> Str(<<"o", "k">>)]
    IN  { <<>>,
          <<assistant>>,
          <<user(Str(<<"C", "O", "G", "S">>))>>,
          <<user(Str(<<"T", "a", "x">>)), assistant>>,
          <<user(Str(<<"T", "a", "x">>)), assistant, user(Str(<<"C", "O", "G", "S">>))>> }

\* POST /chat
Chat ==
    /\ pc = "serve"
    /\ \E documentId \in {"", DocId}, messages \in ChatMessages,
          env \in ComposeEnvs(DocId), generation \in {"ok", "raise"} :
          LET user_query == LastUserMessage(messages, Len(messages))
              retrieval == documentId # "" /\ user_query # <<>> /\ env.supabase_ok
              out == retrieve_relevant_chunks(user_query, CHAT_TOP_K, env)
              relevant_chunks == IF retrieval /\ ~out.raised THEN out.value ELSE <<>>
              citations == ChatCitations(relevant_chunks)
              system_content == ChatSystemContent(ChatContext(relevant_chunks))
          IN  IF ~env.openai_ok
              THEN /\ call' = [op |-> "chat", document_id |-> documentId,
                               query |-> user_query, env |-> env,
                               relevant_chunks |-> <<>>, citations |-> <<>>,
                               sent |-> FALSE, system_content |-> NotSent]
                   /\ response' = Http500
              ELSE /\ call' = [op |-> "chat", document_id |-> documentId,
                               query |-> user_query, env |-> env,
                               relevant_chunks |-> relevant_chunks,
                               citations |-> citations,
                               sent |-> TRUE, system_content |-> system_content]
                   /\ response' = IF generation = "ok"
                                  THEN [status |-> 200, citations |-> citations]
                                  ELSE Http500
    /\ pc' = "served"
    /\ UNCHANGED <<chunkVars, uploadVars, storeVars, agentVars>>

\* POST /eval/run: one question of the loop, up to the generation call
EvalQuestion ==
    /\ pc = "serve"
    /\ \E documentId \in {"", DocId}, question \in Queries, env \in ComposeEnvs(DocId) :
          /\ env.supabase_ok /\ env.openai_ok
          /\ LET out == retrieve_relevant_chunks(question, EVAL_TOP_K, env)
                 relevant_chunks == out.value
             IN  call' = [op |-> "run_evaluation", document_id |-> documentId,
                          query |-> question, env |-> env,
                          relevant_chunks |-> IF documentId # "" THEN relevant_chunks
                                              ELSE <<>>,
                          citations |-> <<>>,
                          sent |-> documentId # "" /\ ~out.raised,
                          system_content |->
                              IF documentId # "" /\ ~out.raised
                              THEN EvalSystemContent(PlainContext(relevant_chunks))
                              ELSE NotSent]
    /\ pc' = "served"
    /\ UNCHANGED <<chunkVars, uploadVars, storeVars, response, agentVars>>

\* POST /equity-analyst/run: one question of the checklist, up to the generation call
AnalystQuestion ==
    /\ pc = "serve"
    /\ \E n \in 1..Len(EQUITY_ANALYST_QUESTIONS), env \in ComposeEnvs(DocId) :
          /\ env.supabase_ok /\ env.openai_ok
          /\ LET question == EQUITY_ANALYST_QUESTIONS[n].question
                 out == retrieve_relevant_chunks(question, ANALYST_TOP_K, env)
                 relevant_chunks == out.value
             IN  call' = [op |-> "run_equity_analyst", document_id |-> DocId,
                          query |-> question, env |-> env,
                          relevant_chunks |-> relevant_chunks,
                          citations |-> AnalystCitations(relevant_chunks),
                          sent |-> ~out.raised,
                          system_content |->
                              IF ~out.raised
                              THEN AnalystSystemContent(PlainContext(relevant_chunks))
                              ELSE NotSent]
    /\ pc' = "served"
    /\ UNCHANGED <<chunkVars, uploadVars, storeVars, response, agentVars>>

NextCompose ==
    \/ StoreChunk
    \/ Chat
    \/ EvalQuestion
    \/ AnalystQuestion

SpecCompose == InitRetrieve /\ [][NextCompose]_vars

(***************************************************************************)
(* ingest_filing_candidate (agents/filing_ingestion.py).  A call is        *)
(* modelled in steps, one per database request, download or upload, so     *)
(* that calls can be interleaved; ing[p] holds the local variables of call *)
(* p.  The candidate ingested is CandidateId.                              *)
(***************************************************************************)
CallIds == {1, 2}
CandidateId == 1

\* a row of filing_candidates; "" stands for None
CandidateRow(id, status, source, source_url, cik, filing, sha256) ==
    [id |-> id, status |-> status, source |-> source, source_url |-> source_url,
     cik |-> cik, filing_type |-> filing.form_type,
     filing_year |-> filing.filing_year,
     accession_number |-> filing.accession_number, sha256_checksum |-> sha256]

\* the filings the sources publish: two 10-K filings of the SEC company, and
\* one annual report, which has no accession number
F1 == [form_type |-> "10-K", filing_year |-> 2024, accession_number |-> "A1",
       document_url |-> "u1"]
F2 == [form_type |-> "10-K", filing_year |-> 2023, accession_number |-> "A2",
       document_url |-> "u2"]
R1 == [form_type |-> "Annual Report", filing_year |-> 2024,
       accession_number |-> "", document_url |-> "r1"]
HTML_PAGE_SIZE == 3000

\* the uuid4 values of a call: its ingestion id and its document ids
IngestionId(p) == p
HtmlDocId(p) == IF p = 1 THEN "doc-h1" ELSE "doc-h2"
UploadDocId(p) == IF p = 1 THEN "doc-u1" ELSE "doc-u2"

\* candidate.get('status') not in ['pending', 'auto_approved'], negated, were
\* every status accepted
AnyStatus(status) == TRUE

\* candidate.get('status') not in ['pending', 'auto_approved'], negated
Ingestable(status) == status \in {"pending", "auto_approved"}

RECURSIVE Skip(_, _)
\* s[n:]
Skip(s, n) ==
    IF n <= 0 \/ s = <<>> THEN s
    ELSE IF s[1][2] <= n THEN Skip(Tail(s), n - s[1][2])
    ELSE << <<s[1][1], s[1][2] - n>> >> \o Tail(s)

RECURSIVE SimulatedPages(_)
\* [text_content[i:i+page_size] for i in range(0, len(text_content), page_size)]
SimulatedPages(text_content) ==
    IF text_content = <<>> THEN <<>>
    ELSE <<Take(text_content, HTML_PAGE_SIZE)>> \o
         SimulatedPages(Skip(text_content, HTML_PAGE_SIZE))

\* (idx // max(1, len(chunks) // len(pages))) + 1
HtmlPageNum(idx, n_chunks, n_pages) ==
    LET per_page == n_chunks \div n_pages
    IN  (idx \div (IF per_page >= 1 THEN per_page ELSE 1)) + 1

\* the records built by the embedding loop of the HTML path, failed being the
\* positions of the chunks whose embedding was None or not of 1536 entries
HtmlChunkRecords(doc_id, cks, n_pages, failed) ==
    LET all == [k \in 1..Len(cks) |->
                   [document_id |-> doc_id,
                    chunk_index |-> k - 1,
                    content |-> cks[k].content,
                    page_number |-> HtmlPageNum(k - 1, Len(cks), n_pages),
                    embedding |-> OkEmbedding,
                    token_count |-> cks[k].token_count]]
    IN  Except(all, failed)

\* the update of filing_ingestions were the except clauses to leave the
\* record as it is
SetIngestionUnlessFailed(rows, ingestion_id, status, document_id) ==
    [k \in 1..Len(rows) |->
        IF rows[k].id = ingestion_id /\ status = "completed"
        THEN [rows[k] EXCEPT !.status = status, !.document_id = document_id]
        ELSE rows[k]]

\* update filing_ingestions set status, document_id where id = ingestion_id
SetIngestion(rows, ingestion_id, status, document_id) ==
    LET Set(r) == [r EXCEPT !.status = status,
                            !.document_id = IF status = "completed" THEN document_id
                                            ELSE @]
    IN  [k \in 1..Len(rows) |->
            IF rows[k].id = ingestion_id THEN Set(rows[k]) ELSE rows[k]]

\* update filing_candidates set status where id = candidate_id
SetCandidateStatus(rows, candidate_id, status) ==
    [k \in 1..Len(rows) |->
        IF rows[k].id = candidate_id THEN [rows[k] EXCEPT !.status = status]
        ELSE rows[k]]

\* the cleaned text of an HTML filing: none, one short page, three words over
\* two simulated pages, and enough words for more than one batch
HtmlTexts ==
    { <<>>, << <<"b", 60>> >>, LongPage(3), LongPage(BATCH_SIZE - 4) }

NoCandidate == CandidateRow(0, "", "", "", "", F1, "")

IdleCall ==
    [pc |-> "idle", candidate |-> NoCandidate, ingestion_started |-> FALSE,
     path |-> "", text_content |-> <<>>, n_pages |-> 0, chunk_records |-> <<>>,
     i |-> 0, doc_id |-> "", writes |-> 0, notified |-> "", result |-> ""]

\* return None / return document_id
Return(c, value) == [c EXCEPT !.pc = "returned", !.result = value]

\* if not supabase: return None
IngestStart(p) ==
    /\ ing[p].pc = "idle"
    /\ \E supabase_ok \in BOOLEAN :
          ing' = [ing EXCEPT ![p] = IF supabase_ok THEN [@ EXCEPT !.pc = "select"]
                                    ELSE Return(@, None)]
    /\ UNCHANGED <<pc, chunkVars, uploadVars, storeVars, response, call,
                   filing_watchlist, filing_candidates, filing_ingestions, scout>>

\* the select of the candidate and the checks of its status and source_url
IngestSelect(p) ==
    /\ ing[p].pc = "select"
    /\ \E raises \in BOOLEAN :
          LET Mine(r) == r.id = CandidateId
              data == SelectSeq(filing_candidates, Mine)
          IN  ing' = [ing EXCEPT ![p] =
                  IF raises THEN [@ EXCEPT !.pc = "outer_except"]
                  ELSE IF data = <<>> THEN Return(@, None)
                  ELSE IF ~Ingestable(data[1].status)
                       THEN Return([@ EXCEPT !.candidate = data[1]], None)
                  ELSE IF data[1].source_url = ""
                       THEN Return([@ EXCEPT !.candidate = data[1]], None)
                  ELSE [@ EXCEPT !.candidate = data[1], !.pc = "insert_ingestion"]]
    /\ UNCHANGED <<pc, chunkVars, uploadVars, storeVars, response, call,
                   filing_watchlist, filing_candidates, filing_ingestions, scout>>

\* the insert of the ingestion record, status 'processing'
IngestInsertRecord(p) ==
    /\ ing[p].pc = "insert_ingestion"
    /\ \E raises \in BOOLEAN :
          /\ filing_ingestions' =
                IF raises THEN filing_ingestions
                ELSE Append(filing_ingestions,
                            [id |-> IngestionId(p), candidate_id |-> CandidateId,
                             status |-> "processing", document_id |-> ""])
          /\ ing' = [ing EXCEPT ![p] =
                [@ EXCEPT !.ingestion_started = TRUE, !.writes = @ + 1,
                          !.pc = IF raises THEN "outer_except" ELSE "download"]]
    /\ UNCHANGED <<pc, chunkVars, uploadVars, storeVars, response, call,
                   filing_watchlist, filing_candidates, scout>>

\* the download: the GET raises, a PDF is obtained (directly or through the
\* filing index), or the filing is HTML without a PDF and its text is taken
IngestDownload(p) ==
    /\ ing[p].pc = "download"
    /\ \E got \in {"raise", "pdf", "html"}, import_ok \in BOOLEAN :
          /\ got # "html" => import_ok
          /\ ing' = [ing EXCEPT ![p] =
                IF got = "raise" \/ ~import_ok THEN [@ EXCEPT !.pc = "inner_except"]
                ELSE IF got = "pdf" THEN [@ EXCEPT !.path = "pdf", !.pc = "upload"]
                ELSE [@ EXCEPT !.path = "html", !.text_content = text,
                               !.pc = "html_document"]]
    /\ UNCHANGED <<pc, chunkVars, uploadVars, storeVars, response, call,
                   filing_watchlist, filing_candidates, filing_ingestions, scout>>

\* HTML path: the documents insert, the simulated pages, chunking and the
\* embedding loop
IngestHtmlDocument(p) ==
    /\ ing[p].pc = "html_document"
    /\ \E raises \in BOOLEAN, openai_ok \in BOOLEAN :
          LET doc_id == HtmlDocId(p)
              pages == SimulatedPages(ing[p].text_content)
              cks == IF pages # <<>> /\ openai_ok THEN chunk_text_by_pages(pages)
                     ELSE <<>>
          IN  \E failed \in UpTo(Len(cks), MaxFaults) :
                 LET records == HtmlChunkRecords(doc_id, cks, Len(pages), failed)
                 IN  /\ raises => ~openai_ok /\ failed = {}
                     /\ documents' =
                           IF raises THEN documents
                           ELSE documents \cup
                                {[id |-> doc_id,
                                  text_content |->
                                      [kind |-> "text",
                                       pages |-> <<ing[p].text_content>>]]}
                     /\ ing' = [ing EXCEPT ![p] =
                           IF raises
                           THEN [@ EXCEPT !.writes = @ + 1, !.pc = "inner_except"]
                           ELSE [@ EXCEPT !.writes = @ + 1, !.doc_id = doc_id,
                                          !.n_pages = Len(pages),
                                          !.chunk_records = records,
                                          !.pc = IF records # <<>> THEN "html_batch"
                                                 ELSE "complete"]]
    /\ UNCHANGED <<pc, chunkVars, uploadVars, document_chunks, response, call,
                   filing_watchlist, filing_candidates, filing_ingestions, scout>>

\* HTML path: one iteration of the batch insert loop
IngestHtmlBatch(p) ==
    /\ ing[p].pc = "html_batch"
    /\ \E raises \in BOOLEAN :
          LET c == ing[p]
              batch == SubSeq(c.chunk_records, c.i + 1,
                              Min(c.i + BATCH_SIZE, Len(c.chunk_records)))
          IN  /\ document_chunks' =
                    IF raises THEN document_chunks ELSE document_chunks \o batch
              /\ ing' = [ing EXCEPT ![p] =
                    IF raises THEN [@ EXCEPT !.writes = @ + 1, !.pc = "inner_except"]
                    ELSE [@ EXCEPT !.writes = @ + 1, !.i = @ + BATCH_SIZE,
                                   !.pc = IF c.i + BATCH_SIZE < Len(c.chunk_records)
                                          THEN "html_batch" ELSE "complete"]]
    /\ UNCHANGED <<pc, chunkVars, uploadVars, documents, response, call,
                   filing_watchlist, filing_candidates, filing_ingestions, scout>>

\* PDF path: the POST to /documents of the backend, which stores the document
\* when it answers 200, and also when the answer is lost to a timeout
IngestUpload(p) ==
    /\ ing[p].pc = "upload"
    /\ \E got \in {"created", "error", "raise", "timeout"} :
          /\ documents' =
                IF got \in {"created", "timeout"}
                THEN documents \cup
                     {[id |-> UploadDocId(p),
                       text_content |-> [kind |-> "text", pages |-> <<>>]]}
                ELSE documents
          /\ ing' = [ing EXCEPT ![p] =
                IF got = "created"
                THEN [@ EXCEPT !.doc_id = UploadDocId(p), !.pc = "complete"]
                ELSE [@ EXCEPT !.pc = "upload_except"]]
    /\ UNCHANGED <<pc, chunkVars, uploadVars, document_chunks, response, call,
                   filing_watchlist, filing_candidates, filing_ingestions, scout>>

\* where an exception raised after the download goes: the handler of the
\* download block on the HTML path, the outermost handler on the PDF path
Handler(c) == IF c.path = "html" THEN "inner_except" ELSE "outer_except"

\* the update of the ingestion record to 'completed'
IngestComplete(p) ==
    /\ ing[p].pc = "complete"
    /\ \E raises \in BOOLEAN :
          /\ filing_ingestions' =
                IF raises THEN filing_ingestions
                ELSE SetIngestion(filing_ingestions, IngestionId(p), "completed",
                                  ing[p].doc_id)
          /\ ing' = [ing EXCEPT ![p] =
                [@ EXCEPT !.writes = @ + 1,
                          !.pc = IF raises THEN Handler(ing[p]) ELSE "mark"]]
    /\ UNCHANGED <<pc, chunkVars, uploadVars, storeVars, response, call,
                   filing_watchlist, filing_candidates, scout>>

\* the update of the candidate to 'ingested'
IngestMarkCandidate(p) ==
    /\ ing[p].pc = "mark"
    /\ \E raises \in BOOLEAN :
          /\ filing_candidates' =
                IF raises THEN filing_candidates
                ELSE SetCandidateStatus(filing_candidates, CandidateId, "ingested")
          /\ ing' = [ing EXCEPT ![p] =
                [@ EXCEPT !.writes = @ + 1,
                          !.pc = IF raises THEN Handler(ing[p]) ELSE "notify"]]
    /\ UNCHANGED <<pc, chunkVars, uploadVars, storeVars, response, call,
                   filing_watchlist, filing_ingestions, scout>>

\* notify_ingestion_complete (its failure is swallowed) and return doc_id
IngestReturn(p) ==
    /\ ing[p].pc = "notify"
    /\ ing' = [ing EXCEPT ![p] = Return([@ EXCEPT !.notified = "complete"], @.doc_id)]
    /\ UNCHANGED <<pc, chunkVars, uploadVars, storeVars, response, call,
                   filing_watchlist, filing_candidates, filing_ingestions, scout>>

\* except Exception of the download block and of the upload block: the
\* ingestion record is set to 'failed' and None returned
IngestFailed(p) ==
    /\ ing[p].pc \in {"inner_except", "upload_except"}
    /\ \E raises \in BOOLEAN :
          /\ filing_ingestions' =
                IF raises THEN filing_ingestions
                ELSE SetIngestion(filing_ingestions, IngestionId(p), "failed", "")
          /\ ing' = [ing EXCEPT ![p] =
                IF raises THEN [@ EXCEPT !.writes = @ + 1, !.pc = "outer_except"]
                ELSE Return([@ EXCEPT !.writes = @ + 1], None)]
    /\ UNCHANGED <<pc, chunkVars, uploadVars, storeVars, response, call,
                   filing_watchlist, filing_candidates, scout>>

\* the outermost except Exception: the record is set to 'failed' if
\* ingestion_id is bound (an exception of this update leaves the function),
\* notify_ingestion_failed, return None
IngestOuterExcept(p) ==
    /\ ing[p].pc = "outer_except"
    /\ \E raises \in BOOLEAN :
          /\ raises => ing[p].ingestion_started
          /\ filing_ingestions' =
                IF raises \/ ~ing[p].ingestion_started THEN filing_ingestions
                ELSE SetIngestion(filing_ingestions, IngestionId(p), "failed", "")
          /\ ing' = [ing EXCEPT ![p] =
                IF raises THEN [@ EXCEPT !.writes = @ + 1, !.pc = "raised"]
                ELSE Return([@ EXCEPT !.writes = IF ing[p].ingestion_started
                                                  THEN @ + 1 ELSE @,
                                      !.notified = "failed"], None)]
    /\ UNCHANGED <<pc, chunkVars, uploadVars, storeVars, response, call,
                   filing_watchlist, filing_candidates, scout>>

Ingest(p) ==
    \/ IngestStart(p)
    \/ IngestSelect(p)
    \/ IngestInsertRecord(p)
    \/ IngestDownload(p)
    \/ IngestHtmlDocument(p)
    \/ IngestHtmlBatch(p)
    \/ IngestUpload(p)
    \/ IngestComplete(p)
    \/ IngestMarkCandidate(p)
    \/ IngestReturn(p)
    \/ IngestFailed(p)
    \/ IngestOuterExcept(p)

\* the statuses a candidate may have
CandidateStatuses == {"pending", "auto_approved", "rejected", "ingested"}

\* the filing_candidates table: empty, or holding the candidate
CandidateTables ==
    { <<>> } \cup
    { <<CandidateRow(CandidateId, st, "sec", url, "c1", F1, "")>> :
        st \in CandidateStatuses, url \in {"", F1.document_url} }

\* the store before the calls; text is the cleaned text of the page at the
\* candidate's source_url, should the download yield HTML
IngestInit(texts) ==
    /\ pc = "ingest"
    /\ text \in texts
    /\ chunk_size = PAGE_CHUNK_SIZE
    /\ overlap = PAGE_OVERLAP
    /\ chunks = <<>>
    /\ pdf = <<>>
    /\ cd = None
    /\ documents = {}
    /\ document_chunks = <<>>
    /\ response = None
    /\ call = None
    /\ filing_watchlist = <<>>
    /\ filing_candidates \in CandidateTables
    /\ filing_ingestions = <<>>
    /\ scout = None
    /\ ing = [p \in CallIds |-> IdleCall]

InitIngest == IngestInit(HtmlTexts)

\* one call
NextIngest == Ingest(1)

SpecIngest == InitIngest /\ [][NextIngest]_vars

\* the texts of the filing of the interleaved calls: of at most one chunk
RaceTexts == { <<>>, << <<"b", 60>> >> }

InitIngestRace == IngestInit(RaceTexts)

\* two calls on the same candidate, their steps interleaved in any order
NextIngestRace == \E p \in CallIds : Ingest(p)

SpecIngestRace == InitIngestRace /\ [][NextIngestRace]_vars

(***************************************************************************)
(* FilingScout (agents/filing_scout.py).  A scan is a FilingScout object   *)
(* and its run_scan; scans follow one another.  The schema of the tables   *)
(* is not part of the sources, so an insert of a candidate may be          *)
(* accepted, answered without data, or rejected with a uniqueness or       *)
(* another error, whatever the table holds.                                *)
(***************************************************************************)
MaxScans == 2

\* the active rows of filing_watchlist, by descending priority;
\* last_polled_at is 0 until a scan has set it
Watchlist ==
    << [id |-> 1, cik |-> "c1", source |-> "sec", last_polled_at |-> 0],
       [id |-> 2, cik |-> "", source |-> "annualreports", last_polled_at |-> 0] >>

\* what a fetch of a source can yield: _parse_sec_filings of the submissions
\* (newest first), or the list of _fetch_annualreports_com
FoundFilings(source) ==
    IF source = "sec" THEN { <<>>, <<F1, F2>> } ELSE { <<>>, <<R1>> }

\* self.stats of a new FilingScout
NewStats ==
    [companies_checked |-> 0, candidates_found |-> 0, candidates_inserted |-> 0,
     duplicates_skipped |-> 0, errors |-> 0]

IdleScout ==
    [pc |-> "idle", dry_run |-> FALSE, limit |-> 0, scans |-> 0, k |-> 0,
     filings |-> <<>>, writes |-> 0, stats |-> NewStats]

\* _check_duplicate: the queries 1 (checksum), 2 (accession number), 3 (CIK,
\* type and year) and 4 (documents by name pattern) in order, each issued
\* only if its argument is set; query raise_at raises (0: none does) and the
\* except clause answers False; doc_match: a document name fits the pattern
check_duplicate(rows, sha256, accession_number, cik, filing_type, filing_year, doc_match, raise_at) ==
    LET Has(Test(_)) == \E k \in 1..Len(rows) : Test(rows[k])
        BySha(r) == r.sha256_checksum = sha256
        ByAccession(r) == r.accession_number = accession_number
        ByCik(r) == /\ r.cik = cik
                    /\ r.filing_type = filing_type
                    /\ r.filing_year = filing_year
        Q4 == IF cik # "" /\ filing_type # "" /\ filing_year # 0
              THEN (IF raise_at = 4 THEN FALSE ELSE doc_match)
              ELSE FALSE
        Q3 == IF cik # ""
              THEN (IF raise_at = 3 THEN FALSE ELSE IF Has(ByCik) THEN TRUE ELSE Q4)
              ELSE Q4
        Q2 == IF accession_number # ""
              THEN (IF raise_at = 2 THEN FALSE
                    ELSE IF Has(ByAccession) THEN TRUE ELSE Q3)
              ELSE Q3
    IN  IF sha256 # ""
        THEN (IF raise_at = 1 THEN FALSE ELSE IF Has(BySha) THEN TRUE ELSE Q2)
        ELSE Q2

\* if not self.dry_run and supabase, were dry_run not looked at
LastPolledAlways(dry_run, supabase_ok) == supabase_ok

\* if not self.dry_run and supabase: whether last_polled_at is updated
LastPolledIssued(dry_run, supabase_ok) == ~dry_run /\ supabase_ok

\* the company after entry k, or the end of run_scan
NextCompany(c) ==
    [c EXCEPT !.filings = <<>>,
              !.k = IF c.k < Len(filing_watchlist) THEN c.k + 1 ELSE 0,
              !.pc = IF c.k < Len(filing_watchlist) THEN "company" ELSE "done"]

\* FilingScout(dry_run, limit) and run_scan up to the loop over the entries
ScoutStart ==
    /\ scout.pc \in {"idle", "done"}
    /\ scout.scans < MaxScans
    /\ \E dry_run \in BOOLEAN, limit \in {0, 1}, supabase_ok \in BOOLEAN,
          raises \in BOOLEAN :
          LET new == [IdleScout EXCEPT !.dry_run = dry_run, !.limit = limit,
                                       !.scans = scout.scans + 1]
          IN  /\ raises => supabase_ok
              /\ scout' =
                    IF ~supabase_ok THEN [new EXCEPT !.pc = "done"]
                    ELSE IF raises
                         THEN [new EXCEPT !.pc = "done", !.stats.errors = @ + 1]
                    ELSE IF filing_watchlist = <<>> THEN [new EXCEPT !.pc = "done"]
                    ELSE [new EXCEPT !.pc = "company", !.k = 1]
    /\ UNCHANGED <<pc, chunkVars, uploadVars, storeVars, response, call,
                   filing_watchlist, filing_candidates, filing_ingestions, ing>>

\* _process_company up to the loop over the filings: the fetch of the source
ScoutCompany ==
    /\ scout.pc = "company"
    /\ LET entry == filing_watchlist[scout.k]
           c == [scout EXCEPT !.stats.companies_checked = @ + 1]
       IN  \E fetched \in BOOLEAN, found \in FoundFilings(entry.source) :
              /\ ~fetched => found = <<>>
              /\ fetched \/ entry.source = "sec"
              /\ scout' =
                    IF ~fetched THEN NextCompany(c)
                    ELSE [c EXCEPT !.filings =
                                       IF c.limit # 0
                                       THEN SubSeq(found, 1, Min(c.limit, Len(found)))
                                       ELSE found,
                                   !.pc = "filing"]
    /\ UNCHANGED <<pc, chunkVars, uploadVars, storeVars, response, call,
                   filing_watchlist, filing_candidates, filing_ingestions, ing>>

\* one iteration of the loop over the filings: _compute_sha256,
\* _check_duplicate and _insert_candidate; after the last filing, the update
\* of last_polled_at
ScoutFiling ==
    /\ scout.pc = "filing"
    /\ scout.filings # <<>>
    /\ LET entry == filing_watchlist[scout.k]
           filing == Head(scout.filings)
           rest == [scout EXCEPT !.filings = Tail(@)]
       IN  \E sha256 \in {"", "h1"}, raise_at \in 0..4, doc_match \in BOOLEAN,
              inserted \in {"ok", "nodata", "unique", "error"} :
              LET is_duplicate ==
                      check_duplicate(filing_candidates, sha256,
                                      IF entry.source = "sec"
                                      THEN filing.accession_number ELSE "",
                                      IF entry.source = "sec" THEN entry.cik ELSE "",
                                      filing.form_type, filing.filing_year,
                                      doc_match, raise_at)
                  row == CandidateRow(Len(filing_candidates) + 1, "pending",
                                      entry.source, filing.document_url, entry.cik,
                                      filing, sha256)
              IN  /\ is_duplicate \/ scout.dry_run => inserted = "ok"
                  /\ filing_candidates' =
                        IF ~is_duplicate /\ ~scout.dry_run /\ inserted = "ok"
                        THEN Append(filing_candidates, row)
                        ELSE filing_candidates
                  /\ scout' =
                        IF is_duplicate
                        THEN [rest EXCEPT !.stats.duplicates_skipped = @ + 1]
                        ELSE IF scout.dry_run
                        THEN [rest EXCEPT !.stats.candidates_found = @ + 1,
                                          !.stats.candidates_inserted = @ + 1]
                        ELSE IF inserted = "ok"
                        THEN [rest EXCEPT !.writes = @ + 1,
                                          !.stats.candidates_found = @ + 1,
                                          !.stats.candidates_inserted = @ + 1]
                        ELSE IF inserted = "unique"
                        THEN [rest EXCEPT !.writes = @ + 1,
                                          !.stats.duplicates_skipped = @ + 1]
                        ELSE IF inserted = "error"
                        THEN [rest EXCEPT !.writes = @ + 1, !.stats.errors = @ + 1]
                        ELSE [rest EXCEPT !.writes = @ + 1]
    /\ UNCHANGED <<pc, chunkVars, uploadVars, storeVars, response, call,
                   filing_watchlist, filing_ingestions, ing>>

\* the end of _process_company: the update of last_polled_at, which may
\* raise into the except clause
ScoutPolled ==
    /\ scout.pc = "filing"
    /\ scout.filings = <<>>
    /\ \E raises \in BOOLEAN :
          LET issued == LastPolledIssued(scout.dry_run, TRUE)
              c == IF ~issued THEN scout
                   ELSE IF raises
                   THEN [scout EXCEPT !.writes = @ + 1, !.stats.errors = @ + 1]
                   ELSE [scout EXCEPT !.writes = @ + 1]
          IN  /\ raises => issued
              /\ filing_watchlist' =
                    IF issued /\ ~raises
                    THEN [filing_watchlist EXCEPT ![scout.k].last_polled_at = 1]
                    ELSE filing_watchlist
              /\ scout' = NextCompany(c)
    /\ UNCHANGED <<pc, chunkVars, uploadVars, storeVars, response, call,
                   filing_candidates, filing_ingestions, ing>>

InitScout ==
    /\ pc = "scout"
    /\ text = <<>>
    /\ chunk_size = PAGE_CHUNK_SIZE
    /\ overlap = PAGE_OVERLAP
    /\ chunks = <<>>
    /\ pdf = <<>>
    /\ cd = None
    /\ documents = {}
    /\ document_chunks = <<>>
    /\ response = None
    /\ call = None
    /\ filing_watchlist = Watchlist
    /\ filing_candidates = <<>>
    /\ filing_ingestions = <<>>
    /\ scout = IdleScout
    /\ ing = None

NextScout ==
    \/ ScoutStart
    \/ ScoutCompany
    \/ ScoutFiling
    \/ ScoutPolled

SpecScout == InitScout /\ [][NextScout]_vars

(***************************************************************************)
(* send_webhook_notification (agents/webhook_notifier.py).  The module     *)
(* configuration (WEBHOOK_ENABLED and the three URLs) and what each POST   *)
(* does are the inputs; the POSTs issued are kept in order.                *)
(***************************************************************************)
\* the targets, in the order of the three blocks of the function
TARGETS == <<"slack", "discord", "custom">>

\* what a POST to a target does: a 2xx response, a response on which
\* raise_for_status raises, or client.post raising (no connection, timeout)
PostOutcomes == {"accepted", "status_error", "raise"}

\* a POST raising inside a block, were the block to catch nothing
UncaughtPost(outcome) ==
    IF outcome = "accepted" THEN "return True" ELSE "propagate"

\* try: post, raise_for_status, return True / except Exception: log
TryPost(outcome) ==
    IF outcome = "accepted" THEN "return True" ELSE "next block"

RECURSIVE WebhookBlocks(_, _, _, _)
\* the blocks from the k-th on, posts being the POSTs issued so far
WebhookBlocks(k, url, outcome, posts) ==
    IF k > Len(TARGETS) THEN [raised |-> FALSE, value |-> FALSE, posts |-> posts]
    ELSE IF ~url[TARGETS[k]] THEN WebhookBlocks(k + 1, url, outcome, posts)
    ELSE LET sent == Append(posts, [target |-> TARGETS[k],
                                    outcome |-> outcome[TARGETS[k]]])
             block == TryPost(outcome[TARGETS[k]])
         IN  IF block = "return True"
             THEN [raised |-> FALSE, value |-> TRUE, posts |-> sent]
             ELSE IF block = "propagate"
             THEN [raised |-> TRUE, value |-> FALSE, posts |-> sent]
             ELSE WebhookBlocks(k + 1, url, outcome, sent)

\* send_webhook_notification: url[t] says whether the URL of target t is set
send_webhook_notification(WEBHOOK_ENABLED, url, outcome) ==
    IF ~WEBHOOK_ENABLED THEN [raised |-> FALSE, value |-> FALSE, posts |-> <<>>]
    ELSE WebhookBlocks(1, url, outcome, <<>>)

TargetSet == {TARGETS[k] : k \in 1..Len(TARGETS)}

\* the events of the notify_ functions
EventTypes == {"new_filing", "ingestion_complete", "ingestion_failed",
               "high_priority_filing"}

InitWebhook ==
    /\ pc = "notify"
    /\ text = <<>>
    /\ chunk_size = PAGE_CHUNK_SIZE
    /\ overlap = PAGE_OVERLAP
    /\ chunks = <<>>
    /\ pdf = <<>>
    /\ cd = None
    /\ documents = {}
    /\ document_chunks = <<>>
    /\ response = None
    /\ call = None
    /\ AgentsIdle

SendWebhook ==
    /\ pc = "notify"
    /\ \E enabled \in BOOLEAN, url \in [TargetSet -> BOOLEAN],
          outcome \in [TargetSet -> PostOutcomes], event_type \in EventTypes :
          call' = [op |-> "send_webhook_notification", event_type |-> event_type,
                   enabled |-> enabled, url |-> url, outcome |-> outcome,
                   out |-> send_webhook_notification(enabled, url, outcome)]
    /\ pc' = "notified"
    /\ UNCHANGED <<chunkVars, uploadVars, storeVars, response, agentVars>>

NextWebhook == SendWebhook

SpecWebhook == InitWebhook /\ [][NextWebhook]_vars

(***************************************************************************)
(* Properties of chunk_text.                                               *)
(***************************************************************************)
RECURSIVE TailSum(_, _)
\* the lengths, each counted plus one, of the last k words of w
TailSum(w, k) ==
    IF k = 0 THEN 0 ELSE StrLen(w[Len(w) - k + 1]) + 1 + TailSum(w, k - 1)

\* the length of the longest run of trailing words of w that total at most ovl
TailRun(w, ovl) ==
    CHOOSE k \in 0..Len(w) :
        /\ TailSum(w, k) <= ovl
        /\ \A m \in 0..Len(w) : TailSum(w, m) <= ovl => m <= k

RECURSIVE ChunksFollow(_, _, _, _, _)
\* chunk i is the words s.. of the page, and each next chunk starts at the
\* overlap run of the one before it and goes on past that chunk's last word
ChunksFollow(cs, words, ovl, i, s) ==
    \/ i > Len(cs)
    \/ LET w == Split(cs[i].content)
           e == s + Len(w) - 1
       IN  /\ Len(w) >= 1
           /\ e <= Len(words)
           /\ w = SubSeq(words, s, e)
           /\ cs[i].content = Join(w)
           /\ IF i = Len(cs) THEN e = Len(words)
              ELSE LET k == TailRun(w, ovl)
                   IN  /\ Len(Split(cs[i + 1].content)) >= k + 1
                       /\ ChunksFollow(cs, words, ovl, i + 1, e - k + 1)

\* C1: every chunk returned by chunk_text has content length <= chunk_size,
\* except a chunk that is one single word longer than chunk_size.
C1_ChunkWithinSize ==
    pc = "chunked" =>
        \A i \in 1..Len(chunks) :
            \/ StrLen(chunks[i].content) <= chunk_size
            \/ /\ Len(Split(chunks[i].content)) = 1
               /\ StrLen(chunks[i].content) > chunk_size

\* C2: consecutive chunks of one page: chunk i+1 begins with the longest run of
\* trailing whole words of chunk i whose lengths (each plus one) total at most
\* overlap, followed by the word that triggered the split; every chunk is a
\* single-space join of consecutive whole words of the page.
C2_OverlapAndWholeWords ==
    pc = "chunked" => ChunksFollow(chunks, Split(text), overlap, 1, 1)

C2_Witness ==
    /\ pc = "chunked"
    /\ Len(chunks) >= 3
    /\ TailRun(Split(chunks[1].content), overlap) >= 2
    /\ TailRun(Split(chunks[2].content), overlap) = 0

(***************************************************************************)
(* Properties of create_document.                                          *)
(***************************************************************************)
\* the consecutive runs of whole words of a page text, each joined by single spaces
WordRunsOf(page_text) ==
    LET words == Split(page_text)
    IN  {Join(SubSeq(words, a, b)) : a \in 1..Len(words), b \in 1..Len(words)}

\* C3: each persisted chunk's page_number is the 1-based index, in the uploaded
\* document, of the page its words came from (also when some pages have no
\* extractable text), and no chunk holds words of two pages.
C3_PageNumberIsSourceIndex ==
    \A k \in 1..Len(document_chunks) :
        LET r == document_chunks[k]
        IN  /\ r.page_number \in 1..Len(pdf)
            /\ r.content \in WordRunsOf(pdf[r.page_number])

(***************************************************************************)
(* Properties of retrieve_relevant_chunks.                                 *)
(***************************************************************************)
Retrieved == pc = "served" /\ call.op = "retrieve"

\* the query embedding the call worked with, Null when it had none
QueryEmbeddingOf(c) ==
    IF c.env.supabase_ok /\ c.env.openai_ok /\ c.env.api_result.kind = "list"
    THEN c.env.api_result
    ELSE Null

\* a stored embedding that is present, as a list or as the text of a list, and
\* has n entries
HasLength(embedding, n) ==
    \/ embedding.kind = "list" /\ StrLen(embedding.vec) = n
    \/ /\ embedding.kind = "str"
       /\ embedding.parsed.kind = "list"
       /\ StrLen(embedding.parsed.vec) = n

\* the rows the call fetched that can be scored against its query embedding
Scorable(c) ==
    LET q == QueryEmbeddingOf(c)
    IN  IF q.kind = "null" \/ q.vec = <<>> \/ c.env.fetch.kind = "raise" THEN {}
        ELSE {r \in {c.env.fetch.data[k] : k \in 1..Len(c.env.fetch.data)} :
                 HasLength(r.embedding, StrLen(q.vec))}

RowOf(id) == CHOOSE r \in {document_chunks[k] : k \in 1..Len(document_chunks)} : r.id = id

\* C4: at most top_k results, each similarity >= the one that follows it.
C4_AtMostTopKSorted ==
    Retrieved =>
        /\ Len(call.out.value) <= call.top_k
        /\ \A k \in 1..(Len(call.out.value) - 1) :
              ~SimLess(call.out.value[k].similarity, call.out.value[k + 1].similarity)

C4_Witness ==
    /\ Retrieved
    /\ Len(call.out.value) = 2
    /\ Cardinality(Scorable(call)) = 3
    /\ SimLess(call.out.value[2].similarity, call.out.value[1].similarity)
    /\ call.env.fetch.data[1].id # call.out.value[1].id

\* C5: the output holds only chunks whose stored embedding is present and as
\* long as the query embedding; the others are left out, not scored 0: the
\* output has min(top_k, number of scorable chunks) entries, all of them scorable.
C5_OnlyScorableChunks ==
    Retrieved =>
        /\ \A k \in 1..Len(call.out.value) :
              \E r \in Scorable(call) : r.id = call.out.value[k].id
        /\ \A a, b \in 1..Len(call.out.value) :
              call.out.value[a].id = call.out.value[b].id => a = b
        /\ Len(call.out.value) = Min(call.top_k, Cardinality(Scorable(call)))

C5_Witness ==
    /\ Retrieved
    /\ Len(call.out.value) = 1
    /\ call.top_k = 2
    /\ Len(call.env.fetch.data) = 3
    /\ call.env.fetch.data[1].embedding = Null
    /\ call.env.fetch.data[2].embedding = ShortEmbedding
    /\ call.out.value[1].similarity.sgn = -1

\* C6: the call never raises, and returns the empty list when a client is not
\* configured, when the embedding call fails or gives no vector, when the
\* fetch raises, and when the document has no chunks.
C6_NeverRaises ==
    Retrieved =>
        /\ ~call.out.raised
        /\ ( \/ ~call.env.supabase_ok
             \/ ~call.env.openai_ok
             \/ call.env.api_result.kind = "raise"
             \/ call.env.api_result.vec = <<>>
             \/ call.env.fetch.kind = "raise"
             \/ call.env.fetch.data = <<>> ) => call.out.value = <<>>

C6_Witness ==
    /\ Retrieved
    /\ call.env.supabase_ok /\ call.env.openai_ok
    /\ call.env.api_result = List(VecA)
    /\ call.env.fetch.kind = "raise"
    /\ \E k \in 1..Len(document_chunks) :
          /\ document_chunks[k].document_id = call.document_id
          /\ document_chunks[k].embedding = List(VecA)
    /\ call.out.value = <<>>

\* C7: two scorable chunks of equal similarity are returned in insertion order
\* (the lower chunk_index first), whatever order the store returns the rows in.
C7_TiesInInsertionOrder ==
    Retrieved =>
        \A a, b \in 1..Len(call.out.value) :
            ( /\ a < b
              /\ ~SimLess(call.out.value[a].similarity, call.out.value[b].similarity)
              /\ ~SimLess(call.out.value[b].similarity, call.out.value[a].similarity) )
            => RowOf(call.out.value[a].id).chunk_index
                   < RowOf(call.out.value[b].id).chunk_index

\* the keys of the table that the lowercased query contains
MatchingKeys(query) ==
    LET lowered == Lower(query)
    IN  {k \in 1..Len(query_expansions) : Contains(lowered, query_expansions[k].term)}

\* C8: when the lowercased query contains no expansion key, the text passed to
\* the embedder is the query exactly as the user supplied it.
C8_NoKeyQueryUnchanged ==
    (Retrieved /\ call.out.embedded.kind = "list" /\ MatchingKeys(call.query) = {})
        => call.out.embedded.vec = call.query

\* C9: when the lowercased query contains expansion keys, the text passed to the
\* embedder is the query, a space, and the space-joined synonyms of exactly one
\* key: the first matching key in the order cogs, revenue, profit, expenses.
C9_FirstMatchingKeyOnly ==
    (Retrieved /\ call.out.embedded.kind = "list")
        => LET keys == MatchingKeys(call.query)
               first == CHOOSE k \in keys : \A m \in keys : k <= m
           IN  keys # {} =>
                   call.out.embedded.vec =
                       call.query \o <<SP>> \o Join(query_expansions[first].synonyms)

C9_Witness ==
    /\ Retrieved
    /\ call.out.embedded.kind = "list"
    /\ MatchingKeys(call.query) = {2, 3}
    /\ Contains(call.out.embedded.vec, Str(<<"t", "o", "t", "a", "l">>))

(***************************************************************************)
(* Properties of the answer-composing paths.                               *)
(***************************************************************************)
Composed ==
    /\ pc = "served"
    /\ call.op \in {"chat", "run_evaluation", "run_equity_analyst"}
    /\ call.sent

\* the instruction a path sends when it has context
GroundedInstruction(op, document_context) ==
    IF op = "chat" THEN ChatSystemContent(document_context)
    ELSE IF op = "run_evaluation" THEN EvalSystemContent(document_context)
    ELSE AnalystSystemContent(document_context)

SomeContext ==
    << [page_info |-> PageLabel(1), contains_numbers |-> FALSE,
        content |-> << <<"b", 60>> >>] >>

\* C10: in chat, run_evaluation and run_equity_analyst, when retrieval returns
\* no chunks the system instruction sent to the generation model is a degraded
\* one, not the instruction template used when chunks were retrieved (also
\* when every chunk of the document has a null embedding).
C10_DegradedInstructionDistinct ==
    (Composed /\ call.relevant_chunks = <<>>)
        => call.system_content.template
               # GroundedInstruction(call.op, SomeContext).template

\* C11: the composer produces exactly one citation per retrieved chunk, in
\* rank order; the i-th citation's identifier is its 1-based sequence
\* position, its label the chunk's page label, and its excerpt the content
\* when that has at most 300 characters, else its first 300 characters
\* followed by an ellipsis.  Stated of chat and of run_equity_analyst.
C11_OneCitationPerChunk ==
    (Composed /\ call.op \in {"chat", "run_equity_analyst"})
        => /\ Len(call.citations) = Len(call.relevant_chunks)
           /\ \A i \in 1..Len(call.citations) :
                 LET cite == call.citations[i]
                     chunk == call.relevant_chunks[i]
                 IN  /\ cite.id.n = i
                     /\ cite.label = PageLabel(chunk.page_number)
                     /\ IF StrLen(chunk.content) <= 300
                        THEN cite.excerpt = chunk.content
                        ELSE /\ StrLen(cite.excerpt) = 303
                             /\ cite.excerpt = Take(chunk.content, 300) \o << <<".", 3>> >>

\* the same statement of chat alone
C11_ChatCitations ==
    (Composed /\ call.op = "chat") => C11_OneCitationPerChunk

\* chat cited two chunks, one of them longer than 300 characters
C11_ChatWitness ==
    /\ Composed /\ call.op = "chat"
    /\ Len(call.citations) >= 2
    /\ \E i \in 1..Len(call.relevant_chunks) :
          StrLen(call.relevant_chunks[i].content) > 300

(***************************************************************************)
(* Properties of the embedding and insert loops of create_document.        *)
(***************************************************************************)
\* the upload got past the documents insert: cd holds the handler's locals
Uploading ==
    \/ pc \in {"embed", "insert", "respond"}
    \/ pc = "done" /\ response.status = 200

Uploaded == pc = "done" /\ response.status = 200

\* C12: a chunk whose embedding call fails during ingestion is still
\* persisted as a chunk record of the document, with a null embedding.
\* Stated of create_document, for uploads none of whose writes failed.
C12_FailedEmbeddingPersistedNull ==
    (Uploaded /\ \A k \in 1..Len(cd.insert_calls) : cd.insert_calls[k].ok)
        => \A k \in 1..Len(cd.embed_calls) :
              cd.embed_calls[k].returned = "null"
                  => \E r \in 1..Len(document_chunks) :
                        /\ document_chunks[r].document_id = DocId
                        /\ document_chunks[r].chunk_index = cd.embed_calls[k].idx
                        /\ document_chunks[r].embedding = Null

\* C13: in create_document a failed embedding never stops the loop: every
\* chunk is attempted exactly once, in order, and when the loop has ended
\* failed_embeddings plus the number of chunk records built is the number of
\* chunks.
C13_EmbedLoopCountsEveryChunk ==
    Uploading
        => /\ Len(cd.embed_calls) = cd.idx
           /\ \A k \in 1..Len(cd.embed_calls) : cd.embed_calls[k].idx = k - 1
           /\ cd.failed_embeddings + Len(cd.chunk_records) = cd.idx
           /\ pc # "embed" => cd.idx = Len(cd.chunks)

\* the loop ended after a failed call that was followed by a successful one
C13_Witness ==
    /\ pc = "insert"
    /\ cd.failed_embeddings >= 1
    /\ \E k \in 1..Len(cd.embed_calls) :
          /\ cd.embed_calls[k].returned = "null"
          /\ \E r \in 1..Len(cd.chunk_records) :
                cd.chunk_records[r].chunk_index > cd.embed_calls[k].idx

\* C15: after ingestion, for any combination of embedding failures and
\* batch-write failures, the persisted chunk records of the document have
\* pairwise distinct chunk_index values and no chunk is persisted twice.
C15_ChunkIndexUnique ==
    \A a, b \in 1..Len(document_chunks) :
        (/\ a # b
         /\ document_chunks[a].document_id = document_chunks[b].document_id)
            => /\ document_chunks[a].chunk_index # document_chunks[b].chunk_index
               /\ document_chunks[a] # document_chunks[b]

\* an upload ended with an embedding failure, a failed batch write and a
\* failed single write, and still persisted two chunks
C15_Witness ==
    /\ Uploaded
    /\ cd.failed_embeddings >= 1
    /\ cd.unwritable # {}
    /\ Len(document_chunks) >= 2

(***************************************************************************)
(* Properties of chunk_text_by_pages on one page.                          *)
(***************************************************************************)
\* C16: for any page text shorter than chunk_size characters, chunking
\* yields exactly one chunk when the page text has at least 50 characters
\* and zero chunks when it is shorter.
C16_ShortPageOneChunk ==
    (pc = "paged" /\ StrLen(text) < PAGE_CHUNK_SIZE)
        => Len(chunks) = (IF StrLen(text) >= 50 THEN 1 ELSE 0)

RECURSIVE CoveredFrom(_, _, _)
\* the chunks cks, in order, are runs of consecutive words of the page, each
\* starting no later than the word after the last one covered so far (pos)
\* and ending beyond it, and together they reach the last word
CoveredFrom(words, cks, pos) ==
    IF cks = <<>> THEN pos = Len(words)
    ELSE LET cw == Split(cks[1].content)
             n == Len(cw)
         IN  \E st \in 1..(pos + 1) :
                /\ st + n - 1 > pos
                /\ st + n - 1 <= Len(words)
                /\ SubSeq(words, st, st + n - 1) = cw
                /\ CoveredFrom(words, Tail(cks), st + n - 1)

Notified == pc = "notified" /\ call.op = "send_webhook_notification"

\* the configured targets, in the order Slack, Discord, custom
ConfiguredTargets(url) ==
    LET Set(t) == url[t] IN SelectSeq(TARGETS, Set)

\* the position of the first configured target that accepts, 0 if none does
FirstAccepting(targets, outcome) ==
    LET accepting == {k \in 1..Len(targets) : outcome[targets[k]] = "accepted"}
    IN  IF accepting = {} THEN 0
        ELSE CHOOSE k \in accepting : \A j \in accepting : k <= j

\* C20: send_webhook_notification never raises and returns True exactly when
\* a configured webhook accepted the POST; with webhooks disabled no request
\* is sent; otherwise the configured targets are tried in the order Slack,
\* Discord, custom, a failure falls through to the next target, and trying
\* stops at the first success, so at most one target accepts the event.
C20_WebhookFirstSuccess ==
    Notified
        => LET out == call.out
               targets == ConfiguredTargets(call.url)
               first == FirstAccepting(targets, call.outcome)
               tried == IF first = 0 THEN Len(targets) ELSE first
           IN  /\ ~out.raised
               /\ out.value \in BOOLEAN
               /\ ~call.enabled => out.posts = <<>> /\ out.value = FALSE
               /\ call.enabled =>
                     /\ Len(out.posts) = tried
                     /\ \A k \in 1..tried : out.posts[k].target = targets[k]
                     /\ out.value = (first # 0)
               /\ out.value =
                     (\E k \in 1..Len(out.posts) : out.posts[k].outcome = "accepted")
               /\ Cardinality({k \in 1..Len(out.posts) :
                                  out.posts[k].outcome = "accepted"}) <= 1

\* Slack raised, Discord accepted, and the custom webhook, though set and
\* willing, was not tried
C20_Witness ==
    /\ Notified
    /\ call.enabled
    /\ \A t \in TargetSet : call.url[t]
    /\ call.outcome["slack"] = "raise"
    /\ call.outcome["discord"] = "accepted"
    /\ call.outcome["custom"] = "accepted"
    /\ Len(call.out.posts) = 2
    /\ call.out.value

\* a call of ingest_filing_candidate has ended, by return or by exception
Ended(p) == ing[p].pc \in {"returned", "raised"}

\* the rows of document_chunks
PersistedChunks == {document_chunks[k] : k \in 1..Len(document_chunks)}

\* create_document alone: no insert call carries more than 20 records, after
\* a failed batch write every record of it is written singly, and at the end
\* only the records whose single write failed are missing
C14_UploadBatches ==
    Uploaded
        => /\ \A k \in 1..Len(cd.insert_calls) : cd.insert_calls[k].size <= BATCH_SIZE
           /\ \A k \in 1..Len(cd.chunk_records) :
                 cd.chunk_records[k].chunk_index \notin cd.unwritable
                     => cd.chunk_records[k] \in PersistedChunks

\* C14: in create_document and in the HTML path of ingest_filing_candidate,
\* chunk records are written in batches of at most 20, and a failed batch
\* write is followed by single writes of its records and by the remaining
\* batches, so that every record that can be written individually is
\* persisted when the operation ends.  In the HTML path every record built
\* can be written individually: only a batch request may fail there.
C14_BatchFailureRetriedSingly ==
    /\ C14_UploadBatches
    /\ \A p \in CallIds :
          Ended(p) /\ ing[p].path = "html"
              => \A k \in 1..Len(ing[p].chunk_records) :
                    ing[p].chunk_records[k] \in PersistedChunks

\* C17: ingest_filing_candidate returns a document id only for a candidate
\* read with status 'pending' or 'auto_approved', and at that return the
\* candidate is 'ingested' and the ingestion record of the call 'completed'
\* with the returned id; for a candidate read in any other status the call
\* returns None, having created no ingestion record and issued no write.
C17_ReturnsIdOnlyForIngestable ==
    \A p \in CallIds :
        /\ ing[p].pc = "returned" /\ ing[p].result # None
              => /\ ing[p].candidate.status \in {"pending", "auto_approved"}
                 /\ \E k \in 1..Len(filing_candidates) :
                       /\ filing_candidates[k].id = CandidateId
                       /\ filing_candidates[k].status = "ingested"
                 /\ \E k \in 1..Len(filing_ingestions) :
                       /\ filing_ingestions[k].id = IngestionId(p)
                       /\ filing_ingestions[k].status = "completed"
                       /\ filing_ingestions[k].document_id = ing[p].result
        /\ (/\ ing[p].candidate.id = CandidateId
            /\ ing[p].candidate.status \notin {"pending", "auto_approved"})
              => /\ ing[p].pc = "returned"
                 /\ ing[p].result = None
                 /\ ing[p].writes = 0
                 /\ filing_ingestions = <<>>
                 /\ documents = {}
                 /\ document_chunks = <<>>
                 /\ filing_candidates = <<ing[p].candidate>>

\* an HTML filing of a pending candidate was ingested, chunks and all, and
\* its document id returned
C17_Witness ==
    /\ ing[1].pc = "returned"
    /\ ing[1].result = HtmlDocId(1)
    /\ ing[1].candidate.status = "pending"
    /\ ing[1].path = "html"
    /\ document_chunks # <<>>
    /\ filing_candidates[1].status = "ingested"

\* C18: during a scan run with dry_run true no insert and no update is
\* issued to any table: every step of such a scan leaves filing_candidates,
\* filing_watchlist, filing_ingestions, documents and document_chunks as
\* they were, and the scan counts no write request.
C18_DryRunWritesNothing ==
    [][ scout.dry_run /\ scout'.scans = scout.scans
            => /\ filing_candidates' = filing_candidates
               /\ filing_watchlist' = filing_watchlist
               /\ filing_ingestions' = filing_ingestions
               /\ documents' = documents
               /\ document_chunks' = document_chunks
               /\ scout'.writes = 0 ]_vars

\* a dry-run scan over both companies has ended; it found filings it would
\* have inserted, and the tables are as before it
C18_Witness ==
    /\ scout.pc = "done"
    /\ scout.dry_run
    /\ scout.stats.companies_checked = Len(filing_watchlist)
    /\ scout.stats.candidates_inserted >= 2
    /\ scout.writes = 0
    /\ filing_candidates = <<>>
    /\ filing_watchlist = Watchlist

\* C19: after any sequence of non-dry-run scans, whatever the duplicate-check
\* queries answered or raised, no two rows of filing_candidates carry the
\* same non-null accession number.
C19_AccessionNumbersUnique ==
    \A j, k \in 1..Len(filing_candidates) :
        /\ j # k
        /\ filing_candidates[j].accession_number # ""
        => filing_candidates[j].accession_number
               # filing_candidates[k].accession_number

\* C22: create_document saves and returns the document whenever the
\* documents insert succeeded: from then on the row stays in documents, and
\* the request ends with status 200 and the document, whether or not PDF
\* parsing failed and whatever embeddings and chunk writes failed.
C22_DocumentSavedDespiteFailures ==
    /\ Uploading => \E d \in documents : d.id = DocId
    /\ (pc = "done" /\ documents # {})
           => /\ response.status = 200
              /\ response.id = DocId

\* a request answered 200 although parsing raised after the first page (the
\* document is stored without text content), an embedding call failed and
\* a single chunk write failed after its batch write
C22_Witness ==
    /\ Uploaded
    /\ \E d \in documents : d.id = DocId /\ d.text_content = Null
    /\ cd.failed_embeddings >= 1
    /\ cd.unwritable # {}
    /\ document_chunks # <<>>

(***************************************************************************)
(* Further properties of ingest_filing_candidate.                          *)
(***************************************************************************)
\* C21: in the HTML path every persisted chunk's page_number is the number
\* of the simulated page its content was taken from, and so lies between 1
\* and the number of simulated pages.
C21_HtmlPageNumberIsSimulatedPage ==
    \A p \in CallIds :
        ing[p].path = "html" =>
            LET cks == chunk_text_by_pages(SimulatedPages(ing[p].text_content))
            IN  \A k \in 1..Len(document_chunks) :
                    document_chunks[k].document_id = HtmlDocId(p) =>
                        /\ document_chunks[k].page_number
                               = cks[document_chunks[k].chunk_index + 1].page_number
                        /\ document_chunks[k].page_number >= 1
                        /\ document_chunks[k].page_number <= ing[p].n_pages

\* C23: an ingestion record that is 'completed' is never set to 'failed' by
\* a later step of the call that completed it, whatever the outcome of the
\* candidate status update and of the webhook notification.
C23_CompletedNeverFailed ==
    [][ \A k \in 1..Len(filing_ingestions) :
            filing_ingestions[k].status = "completed"
                => filing_ingestions'[k].status # "failed" ]_vars

\* the ingestion records of the candidate that are 'completed'
CompletedIngestions ==
    {k \in 1..Len(filing_ingestions) :
        /\ filing_ingestions[k].candidate_id = CandidateId
        /\ filing_ingestions[k].status = "completed"}

\* C24: however the steps of two ingest_filing_candidate calls on the same
\* candidate interleave, at most one document is created for the candidate
\* and at most one of its ingestion records reaches 'completed'.
C24_OneDocumentPerCandidate ==
    /\ Cardinality(documents) <= 1
    /\ Cardinality(CompletedIngestions) <= 1

\* C25: when ingest_filing_candidate returns None the attempt has left no
\* document row and no chunk row in the store, and the status of the
\* candidate is the one the call read.
C25_ReturnNoneLeavesNothing ==
    \A p \in CallIds :
        (ing[p].pc = "returned" /\ ing[p].result = None)
            => /\ documents = {}
               /\ document_chunks = <<>>
               /\ \A k \in 1..Len(filing_candidates) :
                     filing_candidates[k].id = ing[p].candidate.id
                         => filing_candidates[k].status = ing[p].candidate.status

\* C26: the ingestion record a call inserted with status 'processing' is
\* 'completed' or 'failed' when the call returns, on every path: download
\* failure, HTML fallback, upload failure, success.  A call whose last
\* status update raised does not return: the exception leaves the function.
C26_ProcessingRecordSettled ==
    \A p \in CallIds :
        ing[p].pc = "returned" =>
            \A k \in 1..Len(filing_ingestions) :
                filing_ingestions[k].id = IngestionId(p)
                    => filing_ingestions[k].status \in {"completed", "failed"}

\* the upload of a PDF failed, and the call returned None with its record
\* set to 'failed'
C26_Witness ==
    /\ ing[1].pc = "returned"
    /\ ing[1].path = "pdf"
    /\ ing[1].result = None
    /\ ing[1].doc_id = ""
    /\ Len(filing_ingestions) = 1
    /\ filing_ingestions[1].id = IngestionId(1)
    /\ filing_ingestions[1].status = "failed"

====
